---- MODULE Spec2Model ----
(***************************************************************************)
(* RepoDigest: the digest pipeline's pure stages (thread splitter, status  *)
(* classifier, due resolver, digest assembler) as state machines whose     *)
(* initial states draw the inputs and whose actions apply the stage.       *)
(* Text is kept as strings; Len, \o, SubSeq work on them character-wise.   *)
(***************************************************************************)
EXTENDS Integers, Sequences, FiniteSets, TLC

VARIABLES
  pc,            \* position of the harness: which call is pending or done
  chunks,        \* splitThread: the text segments
  maxLength,     \* splitThread: the block limit
  blocks,        \* splitThread: the returned blocks
  remainingText, \* splitLongText: remaining, inside the hard split of a word
  xdigest,       \* renderXDigest: the digest rendered
  xoptions,      \* renderXDigest: the render options
  xresult,       \* renderXDigest: raw blocks, returned blocks and meta
  item,          \* classifyStatus / resolveDue: the work item
  options,       \* classifyStatus / resolveDue: the options argument
  status,        \* classifyStatus: the returned status
  resolution,    \* resolveDue: the returned {due, source}
  summary,       \* summarizeWorkItem: the returned highlights
  items,         \* createDigest: the input work items
  ctx,           \* createDigest: the pipeline context
  digest,        \* createDigest: the returned digest
  clock,         \* the wall clock: what new Date() returns
  steps,         \* runPipeline: what the injected collect and normalize steps will return
  events,        \* runPipeline: the batch of events collect returned
  pctx,          \* runPipeline: the context argument
  hooks,         \* runPipeline: whether hooks.summarizeWorkItem is set
  workItems,    \* runPipeline: the work items normalize returned
  enriched,      \* runPipeline: the enriched work items pushed so far
  pending,       \* runPipeline: due, status and highlights of the item whose hook call is awaited
  hookLog,       \* runPipeline: what the hook did for each item processed so far
  pdigest,       \* runPipeline: the digest createDigest returned
  rendered,      \* runPipeline: the digests render has been called with
  outcome,       \* runPipeline: what its caller receives (a result or an error)
  previous       \* the outcome of the preceding run on the same inputs

vars == <<pc, chunks, maxLength, blocks, remainingText, xdigest, xoptions, xresult,
          item, options, status, resolution, summary, items, ctx, digest, clock,
          steps, events, pctx, hooks, workItems, enriched, pending, hookLog, pdigest,
          rendered, outcome, previous>>

splitVars == <<chunks, maxLength, blocks, remainingText>>
renderVars == <<xdigest, xoptions, xresult>>
ruleVars == <<item, options, status, resolution, summary>>
digestVars == <<items, ctx, digest>>
pipeVars == <<steps, events, pctx, hooks, workItems, enriched, pending, hookLog, pdigest,
              rendered, outcome, previous>>

\* The value of a variable a specification does not use.
Unused == <<>>

\* Initial values of the variable groups a specification does not use.
SplitUnused ==
  chunks = Unused /\ maxLength = Unused /\ blocks = Unused /\ remainingText = Unused
RenderUnused == xdigest = Unused /\ xoptions = Unused /\ xresult = Unused
RuleUnused ==
  item = Unused /\ options = Unused /\ status = Unused /\ resolution = Unused /\ summary = Unused
DigestUnused == items = Unused /\ ctx = Unused /\ digest = Unused
PipeUnused ==
  /\ events = Unused /\ pctx = Unused /\ hooks = Unused /\ workItems = Unused
  /\ enriched = Unused /\ hookLog = Unused /\ pdigest = Unused /\ rendered = Unused
  /\ outcome = Unused /\ previous = Unused /\ steps = Unused /\ pending = Unused

\* JavaScript's null / undefined (an absent optional field).
Null == "<null>"

-----------------------------------------------------------------------------
(* Strings: the JavaScript string operations the code uses. *)

Min(a, b) == IF a < b THEN a ELSE b
Max(a, b) == IF a > b THEN a ELSE b

\* s.charAt(i - 1): the i-th character, "" outside the string.
CharAt(s, i) == IF i >= 1 /\ i <= Len(s) THEN SubSeq(s, i, i) ELSE ""

\* s.slice(from, to) for 0 <= from, 0 <= to (0-based, end exclusive, clamped).
Slice(s, from, to) == SubSeq(s, Min(from, Len(s)) + 1, Min(to, Len(s)))

\* s.slice(from)
SliceFrom(s, from) == Slice(s, from, Len(s))

\* The characters \s matches (and trim removes).
IsSpace(c) == c \in {" ", "\t", "\n", "\r"}

IsDigit(c) == c \in {"0", "1", "2", "3", "4", "5", "6", "7", "8", "9"}

RECURSIVE TrimStart(_)
TrimStart(s) == IF Len(s) > 0 /\ IsSpace(CharAt(s, 1)) THEN TrimStart(Tail(s)) ELSE s

RECURSIVE TrimEnd(_)
TrimEnd(s) ==
  IF Len(s) > 0 /\ IsSpace(CharAt(s, Len(s))) THEN TrimEnd(SubSeq(s, 1, Len(s) - 1)) ELSE s

Trim(s) == TrimEnd(TrimStart(s))

\* s.startsWith(p, at - 1): p occurs in s at position at (1-based).
MatchesAt(s, p, at) == at + Len(p) - 1 <= Len(s) /\ SubSeq(s, at, at + Len(p) - 1) = p

StartsWith(s, p) == MatchesAt(s, p, 1)

\* s.includes(p)
Includes(s, p) == \E at \in 1..(Len(s) + 1) : MatchesAt(s, p, at)

UpperLetters == "ABCDEFGHIJKLMNOPQRSTUVWXYZ"
LowerLetters == "abcdefghijklmnopqrstuvwxyz"

UpperSet == {CharAt(UpperLetters, i) : i \in 1..Len(UpperLetters)}
LowerMap ==
  [c \in UpperSet |->
     CharAt(LowerLetters, CHOOSE i \in 1..Len(UpperLetters) : CharAt(UpperLetters, i) = c)]

LowerChar(c) == IF c \in UpperSet THEN LowerMap[c] ELSE c

RECURSIVE ToLowerCase(_)
ToLowerCase(s) == IF Len(s) = 0 THEN "" ELSE LowerChar(CharAt(s, 1)) \o ToLowerCase(Tail(s))

\* text.split(/\s+/).filter(Boolean): the maximal runs of non-space characters.
RECURSIVE SplitWordsFrom(_, _, _)
SplitWordsFrom(s, word, acc) ==
  IF Len(s) = 0 THEN (IF word = "" THEN acc ELSE Append(acc, word))
  ELSE IF IsSpace(CharAt(s, 1))
       THEN SplitWordsFrom(Tail(s), "", IF word = "" THEN acc ELSE Append(acc, word))
       ELSE SplitWordsFrom(Tail(s), word \o CharAt(s, 1), acc)

SplitWords(s) == SplitWordsFrom(s, "", <<>>)

\* `${n}` for an integer n >= 0: its decimal digits.
DigitChars == "0123456789"

RECURSIVE NumberToString(_)
NumberToString(n) ==
  IF n < 10 THEN CharAt(DigitChars, n + 1)
  ELSE NumberToString(n \div 10) \o CharAt(DigitChars, (n % 10) + 1)

\* parts.join(sep)
RECURSIVE Join(_, _)
Join(parts, sep) ==
  IF Len(parts) = 0 THEN ""
  ELSE IF Len(parts) = 1 THEN parts[1]
  ELSE parts[1] \o sep \o Join(Tail(parts), sep)

\* The strings over alphabet of length at most n.
RECURSIVE StringsUpTo(_, _)
StringsUpTo(alphabet, n) ==
  IF n = 0 THEN {""}
  ELSE LET shorter == StringsUpTo(alphabet, n - 1)
       IN shorter \cup {t \o c : t \in shorter, c \in alphabet}

\* The sequences over S of length at most n.
RECURSIVE SeqsUpTo(_, _)
SeqsUpTo(S, n) ==
  IF n = 0 THEN {<<>>}
  ELSE LET shorter == SeqsUpTo(S, n - 1)
       IN shorter \cup {Append(t, x) : t \in shorter, x \in S}

-----------------------------------------------------------------------------
(* Thread splitter (renderer-x). *)

\* Mutant of hardSplit: the word is kept whole as the current block.
hardSplitWholeWord(remaining, acc, maxLen) == [blocks |-> acc, current |-> remaining]

\* The character-wise hard split of a word longer than maxLength; returns the
\* blocks pushed and the remainder that becomes current.
RECURSIVE hardSplit(_, _, _)
hardSplit(remaining, acc, maxLen) ==
  IF Len(remaining) > maxLen
  THEN hardSplit(SliceFrom(remaining, maxLen), Append(acc, Slice(remaining, 0, maxLen)), maxLen)
  ELSE [blocks |-> acc, current |-> remaining]

\* One iteration of splitLongText's loop over the words.
RECURSIVE splitLongTextLoop(_, _, _, _)
splitLongTextLoop(words, acc, current, maxLen) ==
  IF Len(words) = 0 THEN [blocks |-> acc, current |-> current]
  ELSE LET word == Head(words)
           candidate == IF current # "" THEN current \o " " \o word ELSE word
       IN IF Len(candidate) <= maxLen
          THEN splitLongTextLoop(Tail(words), acc, candidate, maxLen)
          ELSE IF current # ""
               THEN splitLongTextLoop(Tail(words), Append(acc, current), word, maxLen)
               ELSE LET h == hardSplit(word, acc, maxLen)
                    IN splitLongTextLoop(Tail(words), h.blocks, h.current, maxLen)

\* Mutant of splitLongText: the block left in current after the last word is not pushed.
splitLongTextDropCurrent(text, maxLen) ==
  IF Len(text) <= maxLen THEN <<text>>
  ELSE splitLongTextLoop(SplitWords(text), <<>>, "", maxLen).blocks

splitLongText(text, maxLen) ==
  IF Len(text) <= maxLen THEN <<text>>
  ELSE LET r == splitLongTextLoop(SplitWords(text), <<>>, "", maxLen)
       IN IF r.current # "" THEN Append(r.blocks, r.current) ELSE r.blocks

\* Mutant of splitThreadLoop: a chunk is appended only when the combined length is < maxLength.
RECURSIVE splitThreadLoopStrict(_, _, _, _)
splitThreadLoopStrict(cs, acc, current, maxLen) ==
  IF Len(cs) = 0 THEN [blocks |-> acc, current |-> current]
  ELSE LET normalized == Trim(Head(cs))
           candidate == IF current # "" THEN current \o "\n" \o normalized ELSE normalized
       IN IF normalized = ""
          THEN splitThreadLoopStrict(Tail(cs), acc, current, maxLen)
          ELSE IF Len(candidate) < maxLen
               THEN splitThreadLoopStrict(Tail(cs), acc, candidate, maxLen)
               ELSE LET flushed == IF current # "" THEN Append(acc, current) ELSE acc
                        split == splitLongText(normalized, maxLen)
                    IN IF Len(split) = 1
                       THEN splitThreadLoopStrict(Tail(cs), flushed, split[1], maxLen)
                       ELSE splitThreadLoopStrict(Tail(cs),
                                                  flushed \o SubSeq(split, 1, Len(split) - 1),
                                                  IF Len(split) = 0 THEN "" ELSE split[Len(split)],
                                                  maxLen)

\* One iteration of splitThread's loop over the chunks.
RECURSIVE splitThreadLoop(_, _, _, _)
splitThreadLoop(cs, acc, current, maxLen) ==
  IF Len(cs) = 0 THEN [blocks |-> acc, current |-> current]
  ELSE LET normalized == Trim(Head(cs))
           candidate == IF current # "" THEN current \o "\n" \o normalized ELSE normalized
       IN IF normalized = ""
          THEN splitThreadLoop(Tail(cs), acc, current, maxLen)
          ELSE IF Len(candidate) <= maxLen
               THEN splitThreadLoop(Tail(cs), acc, candidate, maxLen)
               ELSE LET flushed == IF current # "" THEN Append(acc, current) ELSE acc
                        split == splitLongText(normalized, maxLen)
                    IN IF Len(split) = 1
                       THEN splitThreadLoop(Tail(cs), flushed, split[1], maxLen)
                       ELSE splitThreadLoop(Tail(cs),
                                            flushed \o SubSeq(split, 1, Len(split) - 1),
                                            IF Len(split) = 0 THEN "" ELSE split[Len(split)],
                                            maxLen)

splitThread(cs, maxLen) ==
  LET r == splitThreadLoop(cs, <<>>, "", maxLen)
  IN IF r.current # "" THEN Append(r.blocks, r.current) ELSE r.blocks

-----------------------------------------------------------------------------
(* Bounds of the splitter's inputs. *)

MaxChunks == 2
MaxChunkLen == 4
MaxSplitLength == 3

ChunkAlphabet == {"a", "b", " "}
ChunkTexts == StringsUpTo(ChunkAlphabet, MaxChunkLen)

InitSplit ==
  /\ pc = "splitThread"
  /\ PipeUnused
  /\ chunks \in SeqsUpTo(ChunkTexts, MaxChunks)
  /\ maxLength \in 1..MaxSplitLength
  /\ blocks = Unused
  /\ remainingText = Unused
  /\ RenderUnused
  /\ RuleUnused
  /\ DigestUnused
  /\ clock = Unused

SplitThread ==
  /\ pc = "splitThread"
  /\ blocks' = splitThread(chunks, maxLength)
  /\ pc' = "done"
  /\ UNCHANGED <<chunks, maxLength, remainingText, renderVars, ruleVars, digestVars, clock,
                 pipeVars>>

NextSplit == SplitThread

SpecSplit == InitSplit /\ [][NextSplit]_vars

\* C1: every block returned by splitThread(chunks, L), L >= 1, has length <= L.
C1_BlocksWithinLimit ==
  pc = "done" => \A i \in 1..Len(blocks) : Len(blocks[i]) <= maxLength

-----------------------------------------------------------------------------
(* Work items and events (core types).  An absent optional field is Null. *)

\* An Event; milestoneDueOn stands for event.milestone?.dueOn.
Event(id, type, title, body, milestoneDueOn) ==
  [id |-> id, provider |-> "github", repo |-> "acme/repo", type |-> type, title |-> title,
   body |-> body, timestamp |-> "2026-02-14T01:00:00Z", milestoneDueOn |-> milestoneDueOn]

\* A WorkItem.
WorkItem(key, repo, title, labels, due, st, evidence) ==
  [key |-> key, kind |-> "issue", repo |-> repo, title |-> title, labels |-> labels,
   due |-> due, status |-> st, highlights |-> <<>>, evidence |-> evidence]

\* opts.field ?? d for an options object, whose absent fields are not in its domain.
Option(opts, field, d) == IF field \in DOMAIN opts THEN opts[field] ELSE d

\* `x` is truthy for an optional string: neither undefined nor "".
Truthy(x) == x # Null /\ x # ""

\* x ?? d
OrElse(x, d) == IF x = Null THEN d ELSE x

\* s.split(sep) for a one-character sep: the pieces between the separators.
RECURSIVE SplitOnFrom(_, _, _, _)
SplitOnFrom(s, sep, piece, acc) ==
  IF Len(s) = 0 THEN Append(acc, piece)
  ELSE IF CharAt(s, 1) = sep
       THEN SplitOnFrom(Tail(s), sep, "", Append(acc, piece))
       ELSE SplitOnFrom(Tail(s), sep, piece \o CharAt(s, 1), acc)

SplitOn(s, sep) == SplitOnFrom(s, sep, "", <<>>)

\* The first of the indices hits of a list, 0 when there is none: what a for-of
\* loop with an early return, or find, reaches first.
FirstIndex(hits) == IF hits = {} THEN 0 ELSE CHOOSE h \in hits : \A g \in hits : h <= g

\* The end of the run of \s characters of s that starts at position at.
RECURSIVE SpaceRunEnd(_, _)
SpaceRunEnd(s, at) == IF at <= Len(s) /\ IsSpace(CharAt(s, at)) THEN SpaceRunEnd(s, at + 1) ELSE at

\* body.match(/^---\s*\n([\s\S]*?)\n---/)?.[1]: Null when the body has no leading
\* frontmatter block, else the block's content.  \s* is greedy, so the \n the
\* pattern names is the last newline of the whitespace run after which a
\* closing "\n---" still follows; the content is lazy, so it ends at the first one.
frontmatterMatch(body) ==
  IF ~StartsWith(body, "---") THEN Null
  ELSE LET runEnd == SpaceRunEnd(body, 4)
           closes(from) == {e \in from..Len(body) : MatchesAt(body, "\n---", e)}
           opens == {p \in 4..(runEnd - 1) : CharAt(body, p) = "\n" /\ closes(p + 1) # {}}
       IN IF opens = {} THEN Null
          ELSE LET p == CHOOSE q \in opens : \A r \in opens : r <= q
                   e == CHOOSE c \in closes(p + 1) : \A d \in closes(p + 1) : c <= d
               IN SubSeq(body, p + 1, e - 1)

-----------------------------------------------------------------------------
(* Status classifier. *)

isDoneEvent(event) == event.type \in {"issue_closed", "pr_merged", "release"}

parseFrontmatterStatus(body) ==
  LET content == frontmatterMatch(body)
  IN IF content = Null THEN Null
     ELSE IF content = "" THEN Null
     ELSE LET lines == SplitOn(content, "\n")
              trimmed == [i \in 1..Len(lines) |-> Trim(lines[i])]
              isStatus(line) == StartsWith(ToLowerCase(line), "status:")
              at == FirstIndex({i \in 1..Len(trimmed) : isStatus(trimmed[i])})
          IN IF at = 0 THEN Null
             ELSE LET parts == SplitOn(trimmed[at], ":")
                  IN IF Len(parts) < 2 THEN Null ELSE ToLowerCase(Trim(parts[2]))

\* item.labels ?? []: an item without labels carries the empty list.
labelsOf(it) == it.labels

\* Mutant of hasBlockedSignals: the keywords are searched in the text as written.
hasBlockedSignalsCaseSensitive(it, blockedLabels) ==
  \/ \E i \in 1..Len(labelsOf(it)) : ToLowerCase(labelsOf(it)[i]) \in blockedLabels
  \/ \E i \in 1..Len(it.evidence) :
       LET event == it.evidence[i]
           text == OrElse(event.title, "") \o " " \o OrElse(event.body, "")
       IN \/ Truthy(event.body) /\ parseFrontmatterStatus(event.body) = "blocked"
          \/ Includes(text, "blocked")
          \/ Includes(text, "stuck")
          \/ Includes(text, "waiting on")

hasBlockedSignals(it, blockedLabels) ==
  \/ \E i \in 1..Len(labelsOf(it)) : ToLowerCase(labelsOf(it)[i]) \in blockedLabels
  \/ \E i \in 1..Len(it.evidence) :
       LET event == it.evidence[i]
           text == ToLowerCase(OrElse(event.title, "") \o " " \o OrElse(event.body, ""))
       IN \/ Truthy(event.body) /\ parseFrontmatterStatus(event.body) = "blocked"
          \/ Includes(text, "blocked")
          \/ Includes(text, "stuck")
          \/ Includes(text, "waiting on")

hasPlannedSignals(it, nextLabels) ==
  \E i \in 1..Len(labelsOf(it)) : ToLowerCase(labelsOf(it)[i]) \in nextLabels

hasInProgressSignals(it) ==
  \E i \in 1..Len(it.evidence) :
    it.evidence[i].type \in {"issue_created", "issue_commented", "pr_opened", "pr_reviewed", "commit"}

\* new Set(labels.map((s) => s.toLowerCase()))
lowerSet(labels) == {ToLowerCase(labels[i]) : i \in 1..Len(labels)}

DefaultBlockedLabels == <<"blocked", "stuck">>
DefaultNextLabels == <<"next", "planned", "todo">>

\* Mutant of classifyStatus: the blocked rule is tried before the done rule.
classifyStatusBlockedFirst(it, opts) ==
  LET blockedLabels == lowerSet(Option(opts, "blockedLabels", DefaultBlockedLabels))
      nextLabels == lowerSet(Option(opts, "nextLabels", DefaultNextLabels))
  IN IF hasBlockedSignals(it, blockedLabels) THEN "blocked"
     ELSE IF \E i \in 1..Len(it.evidence) : isDoneEvent(it.evidence[i]) THEN "done"
     ELSE IF hasPlannedSignals(it, nextLabels) THEN "planned"
     ELSE IF hasInProgressSignals(it) THEN "in_progress"
     ELSE "unknown"

classifyStatus(it, opts) ==
  LET blockedLabels == lowerSet(Option(opts, "blockedLabels", DefaultBlockedLabels))
      nextLabels == lowerSet(Option(opts, "nextLabels", DefaultNextLabels))
  IN IF \E i \in 1..Len(it.evidence) : isDoneEvent(it.evidence[i]) THEN "done"
     ELSE IF hasBlockedSignals(it, blockedLabels) THEN "blocked"
     ELSE IF hasPlannedSignals(it, nextLabels) THEN "planned"
     ELSE IF hasInProgressSignals(it) THEN "in_progress"
     ELSE "unknown"

-----------------------------------------------------------------------------
(* The classifier's inputs. *)

MaxEvidence == 2

ClassifyEvents ==
  { Event("e1", "issue_created", Null, Null, Null),
    Event("e2", "issue_commented", "Fix login bug", "looks fine", Null),
    Event("e3", "pr_opened", Null, Null, Null),
    Event("e4", "pr_reviewed", "Still waiting", "on review", Null),
    Event("e5", "commit", Null, Null, Null),
    Event("e6", "issue_closed", "Unblocked deploy", Null, Null),
    Event("e7", "pr_merged", Null, Null, Null),
    Event("e8", "release", Null, Null, Null),
    Event("e9", "note", Null, Null, Null),
    Event("e10", "note", "Stuck on CI", Null, Null),
    Event("e11", "note", Null, "Waiting On API reply", Null),
    Event("e12", "note", Null, "---\nStatus: Blocked\n---\nnotes", Null),
    Event("e13", "note", Null, "---\nstatus: open\n---\nnotes", Null) }

ClassifyLabels ==
  { <<>>, <<"Blocked">>, <<"next">>, <<"bug">>, <<"TODO", "stuck">>,
    <<"On-Hold">>, <<"later", "bug">>, <<"On-Hold", "Later">> }

ClassifyOptions ==
  { [x \in {} |-> Null],
    [blockedLabels |-> <<"on-hold">>],
    [nextLabels |-> <<"Later">>],
    [blockedLabels |-> <<"On-Hold">>, nextLabels |-> <<"later", "on-hold">>],
    [blockedLabels |-> <<>>, nextLabels |-> <<>>] }

InitClassify ==
  /\ pc = "classifyStatus"
  /\ PipeUnused
  /\ item \in {WorkItem("github:acme/repo#2", "acme/repo", "Test item", ls, Null, "unknown", ev) :
                 ls \in ClassifyLabels, ev \in SeqsUpTo(ClassifyEvents, MaxEvidence)}
  /\ options \in ClassifyOptions
  /\ status = Unused
  /\ resolution = Unused
  /\ summary = Unused
  /\ SplitUnused
  /\ RenderUnused
  /\ DigestUnused
  /\ clock = Unused

ClassifyStatus ==
  /\ pc = "classifyStatus"
  /\ status' = classifyStatus(item, options)
  /\ pc' = "done"
  /\ UNCHANGED <<item, options, resolution, summary, splitVars, renderVars, digestVars, clock,
                 pipeVars>>

NextClassify == ClassifyStatus

SpecClassify == InitClassify /\ [][NextClassify]_vars

\* The signals of the claim, stated on the item and the vocabularies in force.
HasDoneEvent ==
  \E i \in 1..Len(item.evidence) : item.evidence[i].type \in {"issue_closed", "pr_merged", "release"}
HasBlockedSignal ==
  hasBlockedSignals(item, lowerSet(Option(options, "blockedLabels", DefaultBlockedLabels)))
HasNextLabel ==
  \E i \in 1..Len(labelsOf(item)) :
    ToLowerCase(labelsOf(item)[i]) \in lowerSet(Option(options, "nextLabels", DefaultNextLabels))
HasActiveEvent ==
  \E i \in 1..Len(item.evidence) :
    item.evidence[i].type \in {"issue_created", "issue_commented", "pr_opened", "pr_reviewed", "commit"}

\* C4: classifyStatus returns the status of the first matching rule in the order
\* done > blocked > planned > in_progress > unknown.
C4_StatusPriority ==
  pc = "done" =>
    /\ HasDoneEvent => status = "done"
    /\ ~HasDoneEvent /\ HasBlockedSignal => status = "blocked"
    /\ ~HasDoneEvent /\ ~HasBlockedSignal /\ HasNextLabel => status = "planned"
    /\ ~HasDoneEvent /\ ~HasBlockedSignal /\ ~HasNextLabel /\ HasActiveEvent => status = "in_progress"
    /\ ~HasDoneEvent /\ ~HasBlockedSignal /\ ~HasNextLabel /\ ~HasActiveEvent => status = "unknown"

\* C4 witness: a closed issue that also carries a blocked label and a next label is done.
C4_Witness ==
  /\ pc = "done" /\ status = "done"
  /\ HasDoneEvent /\ HasBlockedSignal /\ HasNextLabel
  /\ \E i \in 1..Len(labelsOf(item)) : ToLowerCase(labelsOf(item)[i]) = "stuck"

\* The options with an empty vocabulary: the defaults are to stand in for it.
EmptyVocabulary == \E f \in DOMAIN options : options[f] = <<>>
OptionsWithDefaults == [f \in {g \in DOMAIN options : options[g] # <<>>} |-> options[f]]

\* C19: with an empty blocked-label or next-label vocabulary classifyStatus returns
\* what it returns when that vocabulary is left to its default.
C19_EmptyVocabularyIsDefault ==
  (pc = "done" /\ EmptyVocabulary) => status = classifyStatus(item, OptionsWithDefaults)

\* The blocked signals of the claim, stated on the item.
BlockedKeywords == {"blocked", "stuck", "waiting on"}
HasKeyword(s) == s # Null /\ \E k \in BlockedKeywords : Includes(ToLowerCase(s), k)
BlockedLabelSignal ==
  \E i \in 1..Len(item.labels) :
    \E v \in 1..Len(Option(options, "blockedLabels", DefaultBlockedLabels)) :
      ToLowerCase(item.labels[i]) = ToLowerCase(Option(options, "blockedLabels", DefaultBlockedLabels)[v])
\* The status key of the leading frontmatter of the bodies used, lower-cased.
FrontmatterStatusOf(body) ==
  CASE body = "---\nStatus: Blocked\n---\nnotes" -> "blocked"
    [] body = "---\nstatus: open\n---\nnotes" -> "open"
    [] OTHER -> Null
BlockedFrontmatterSignal ==
  \E i \in 1..Len(item.evidence) : FrontmatterStatusOf(item.evidence[i].body) = "blocked"
KeywordInTitleOrBody ==
  \E i \in 1..Len(item.evidence) :
    HasKeyword(item.evidence[i].title) \/ HasKeyword(item.evidence[i].body)
KeywordInJoinedText ==
  \E i \in 1..Len(item.evidence) :
    HasKeyword(OrElse(item.evidence[i].title, "") \o " " \o OrElse(item.evidence[i].body, ""))

\* C21 as stated: without a done event the status is blocked iff a label is in the
\* blocked vocabulary, a frontmatter status is blocked, or a title or a body
\* contains a keyword.
C21_Original ==
  (pc = "done" /\ ~HasDoneEvent) =>
    (status = "blocked" <=>
       (BlockedLabelSignal \/ BlockedFrontmatterSignal \/ KeywordInTitleOrBody))

\* C21: without a done event the status is blocked iff a label is in the blocked
\* vocabulary, a frontmatter status is blocked, or the text "title body" of an
\* evidence record (title, one space, body) contains a keyword, ignoring case.
C21_BlockedSignal ==
  (pc = "done" /\ ~HasDoneEvent) =>
    (status = "blocked" <=>
       (BlockedLabelSignal \/ BlockedFrontmatterSignal \/ KeywordInJoinedText))

\* C21 witness: a unit is blocked for "waiting on" alone, which spans the end of
\* its record's title and the start of the body.
C21_Witness ==
  /\ pc = "done" /\ status = "blocked" /\ ~HasDoneEvent
  /\ ~BlockedLabelSignal /\ ~BlockedFrontmatterSignal /\ ~KeywordInTitleOrBody
  /\ KeywordInJoinedText

-----------------------------------------------------------------------------
(* Instants and time zones.  A Date is the number of hours since           *)
(* 2026-01-01T00:00:00Z; the instants used lie in February 2026, where the *)
(* zones below keep a fixed offset from UTC.                               *)

DaysInMonth == <<31, 28, 31, 30, 31, 30, 31, 31, 30, 31, 30, 31>>

RECURSIVE DaysBeforeMonth(_)
DaysBeforeMonth(m) == IF m = 1 THEN 0 ELSE DaysBeforeMonth(m - 1) + DaysInMonth[m - 1]

\* new Date("2026-MM-DDTHH:00:00Z")
Instant(month, day, hour) == (DaysBeforeMonth(month) + day - 1) * 24 + hour

\* The UTC offset, in hours, of the IANA zones the model knows.
TimeZoneOffset == [UTC |-> 0, Asia_Taipei |-> 8, America_New_York |-> -5]
ZoneKey(timezone) ==
  CASE timezone = "UTC" -> "UTC"
    [] timezone = "Asia/Taipei" -> "Asia_Taipei"
    [] timezone = "America/New_York" -> "America_New_York"

\* String(n).padStart(2, "0"), the "2-digit" parts of Intl.DateTimeFormat.
Pad2(n) == IF n < 10 THEN "0" \o NumberToString(n) ELSE NumberToString(n)

\* The month (1..12) holding day-of-year d (0-based), searched from month m.
RECURSIVE MonthOfDay(_, _)
MonthOfDay(d, m) == IF d < DaysBeforeMonth(m) + DaysInMonth[m] THEN m ELSE MonthOfDay(d, m + 1)

\* The en-CA parts of the local calendar day, joined as year-month-day.
\* Mutant of formatDateInTimeZone: the UTC calendar day, whatever the zone.
formatDateInTimeZoneAsUtc(date, timezone) ==
  LET dayOfYear == date \div 24
      month == MonthOfDay(dayOfYear, 1)
      day == dayOfYear - DaysBeforeMonth(month) + 1
  IN "2026" \o "-" \o Pad2(month) \o "-" \o Pad2(day)

formatDateInTimeZone(date, timezone) ==
  LET localHours == date + TimeZoneOffset[ZoneKey(timezone)]
      dayOfYear == localHours \div 24
      month == MonthOfDay(dayOfYear, 1)
      day == dayOfYear - DaysBeforeMonth(month) + 1
  IN "2026" \o "-" \o Pad2(month) \o "-" \o Pad2(day)

-----------------------------------------------------------------------------
(* Due resolver. *)

\* /20\d{2}-\d{2}-\d{2}/ matches s at position at.
IsDateAt(s, at) ==
  /\ at + 9 <= Len(s)
  /\ CharAt(s, at) = "2" /\ CharAt(s, at + 1) = "0"
  /\ IsDigit(CharAt(s, at + 2)) /\ IsDigit(CharAt(s, at + 3))
  /\ CharAt(s, at + 4) = "-"
  /\ IsDigit(CharAt(s, at + 5)) /\ IsDigit(CharAt(s, at + 6))
  /\ CharAt(s, at + 7) = "-"
  /\ IsDigit(CharAt(s, at + 8)) /\ IsDigit(CharAt(s, at + 9))

\* s.match(DATE_PATTERN)?.[1]: the leftmost date in s, Null when there is none.
matchDatePattern(s) ==
  LET hits == {at \in 1..Len(s) : IsDateAt(s, at)}
  IN IF hits = {} THEN Null
     ELSE LET at == CHOOSE h \in hits : \A g \in hits : h <= g IN SubSeq(s, at, at + 9)

\* s.indexOf(c) + 1 for a character c: 0 when c does not occur.
IndexOfChar(s, c) ==
  LET hits == {at \in 1..Len(s) : CharAt(s, at) = c}
  IN IF hits = {} THEN 0 ELSE CHOOSE h \in hits : \A g \in hits : h <= g

\* The key/value pairs of the lines of a frontmatter block, in line order.
RECURSIVE frontmatterEntries(_, _)
frontmatterEntries(lines, acc) ==
  IF Len(lines) = 0 THEN acc
  ELSE LET line == Trim(Head(lines))
           sep == IndexOfChar(line, ":") - 1
           key == Trim(Slice(line, 0, sep))
           value == Trim(SliceFrom(line, sep + 1))
       IN IF line = "" \/ sep <= 0 \/ key = "" \/ value = ""
          THEN frontmatterEntries(Tail(lines), acc)
          ELSE frontmatterEntries(Tail(lines), Append(acc, <<key, value>>))

parseFrontmatter(body) ==
  LET content == frontmatterMatch(body)
  IN IF content = Null THEN <<>>
     ELSE IF content = "" THEN <<>>
     ELSE frontmatterEntries(SplitOn(content, "\n"), <<>>)

\* record[key] of the object parseFrontmatter builds: the last line with that key wins.
frontmatterGet(entries, key) ==
  LET hits == {i \in 1..Len(entries) : entries[i][1] = key}
  IN IF hits = {} THEN Null ELSE entries[CHOOSE h \in hits : \A g \in hits : g <= h][2]

resolveByMilestone(it) ==
  LET dated(event) ==
        Truthy(event.milestoneDueOn) /\ matchDatePattern(event.milestoneDueOn) # Null
      at == FirstIndex({i \in 1..Len(it.evidence) : dated(it.evidence[i])})
  IN IF at = 0 THEN Null ELSE matchDatePattern(it.evidence[at].milestoneDueOn)

\* normalized.match(/^(?:due|deadline):\s*(20\d{2}-\d{2}-\d{2})$/)?.[1]
matchDueLabel(normalized) ==
  LET rest == IF StartsWith(normalized, "due:") THEN SliceFrom(normalized, 4)
              ELSE IF StartsWith(normalized, "deadline:") THEN SliceFrom(normalized, 9)
              ELSE Null
  IN IF rest = Null THEN Null
     ELSE LET date == TrimStart(rest)
          IN IF Len(date) = 10 /\ IsDateAt(date, 1) THEN date ELSE Null

resolveByLabel(it, today) ==
  LET normalize(label) == ToLowerCase(Trim(label))
      matches(label) == normalize(label) = "due/today" \/ matchDueLabel(normalize(label)) # Null
      at == FirstIndex({i \in 1..Len(labelsOf(it)) : matches(labelsOf(it)[i])})
  IN IF at = 0 THEN Null
     ELSE IF normalize(labelsOf(it)[at]) = "due/today" THEN today
     ELSE matchDueLabel(normalize(labelsOf(it)[at]))

\* The date of the due key of an event's frontmatter, Null when it has none.
frontmatterDue(event) ==
  IF ~Truthy(event.body) THEN Null
  ELSE LET due == frontmatterGet(parseFrontmatter(event.body), "due")
       IN IF ~Truthy(due) THEN Null ELSE matchDatePattern(due)

resolveByFrontmatter(it) ==
  LET dated(event) == frontmatterDue(event) # Null
      at == FirstIndex({i \in 1..Len(it.evidence) : dated(it.evidence[i])})
  IN IF at = 0 THEN Null ELSE frontmatterDue(it.evidence[at])

\* Mutant of resolveDue: the label rule is tried before the milestone rule.
resolveDueLabelFirst(it, opts, now) ==
  LET today == formatDateInTimeZone(Option(opts, "referenceDate", now), Option(opts, "timezone", "UTC"))
      byMilestone == resolveByMilestone(it)
      byLabel == resolveByLabel(it, today)
      byFrontmatter == resolveByFrontmatter(it)
  IN IF Truthy(byLabel) THEN [due |-> byLabel, source |-> "label"]
     ELSE IF Truthy(byMilestone) THEN [due |-> byMilestone, source |-> "milestone"]
     ELSE IF Truthy(byFrontmatter) THEN [due |-> byFrontmatter, source |-> "frontmatter"]
     ELSE [due |-> Null, source |-> "none"]

\* resolveDue(item, options), with now the reading of the wall clock (new Date()).
resolveDue(it, opts, now) ==
  LET timezone == Option(opts, "timezone", "UTC")
      referenceDate == Option(opts, "referenceDate", now)
      today == formatDateInTimeZone(referenceDate, timezone)
      byMilestone == resolveByMilestone(it)
      byLabel == resolveByLabel(it, today)
      byFrontmatter == resolveByFrontmatter(it)
  IN IF Truthy(byMilestone) THEN [due |-> byMilestone, source |-> "milestone"]
     ELSE IF Truthy(byLabel) THEN [due |-> byLabel, source |-> "label"]
     ELSE IF Truthy(byFrontmatter) THEN [due |-> byFrontmatter, source |-> "frontmatter"]
     ELSE [due |-> Null, source |-> "none"]

-----------------------------------------------------------------------------
(* The due resolver's inputs. *)

DueEvents ==
  { Event("d1", "issue_created", Null, Null, Null),
    Event("d2", "issue_created", Null, Null, "2026-02-20T00:00:00Z"),
    Event("d3", "issue_created", Null, Null, "due 2026-04-02 or 2026-04-09"),
    Event("d5", "issue_created", Null, "---\ndue: 2026-03-01\nstatus: blocked\n---\nBody text", Null),
    Event("d6", "issue_created", Null, "---\n\nDue: 2026-03-09\ndue: soon\n---", "TBD"),
    Event("d7", "issue_created", Null, "due: 2026-03-02\n---\ndue: 2026-03-03\n---", Null) }

DueLabels ==
  { <<>>, <<"bug">>, <<"due/today">>, <<" Due/Today ", "bug">>, <<"due:2026-03-01">>,
    <<"bug", "Deadline: 2026-03-05", "due/today">>, <<"due/today", "due:2026-03-01">>,
    <<"due:tomorrow", "overdue:2026-03-01", "due: 2026-03-011">> }

ReferenceInstants == {Instant(2, 14, 3), Instant(2, 14, 9), Instant(2, 14, 20), Instant(2, 28, 20)}
ClockReadings == {Instant(2, 14, 9), Instant(2, 14, 20)}
TimeZones == {"UTC", "Asia/Taipei", "America/New_York"}

DueOptions ==
  {[x \in {} |-> Null]}
    \cup {[timezone |-> tz] : tz \in {"Asia/Taipei"}}
    \cup {[referenceDate |-> d] : d \in {Instant(2, 14, 20)}}
    \cup {[referenceDate |-> d, timezone |-> tz] : d \in ReferenceInstants, tz \in TimeZones}

InitDue ==
  /\ pc = "resolveDue"
  /\ PipeUnused
  /\ item \in {WorkItem("github:owner/repo#1", "owner/repo", "Test item", ls, Null, "unknown", ev) :
                 ls \in DueLabels, ev \in SeqsUpTo(DueEvents, MaxEvidence)}
  /\ options \in DueOptions
  /\ clock \in ClockReadings
  /\ status = Unused
  /\ resolution = Unused
  /\ summary = Unused
  /\ SplitUnused
  /\ RenderUnused
  /\ DigestUnused

ResolveDue ==
  /\ pc = "resolveDue"
  /\ resolution' = resolveDue(item, options, clock)
  /\ pc' = "done"
  /\ UNCHANGED <<item, options, status, summary, clock, splitVars, renderVars, digestVars,
                 pipeVars>>

NextDue == ResolveDue

SpecDue == InitDue /\ [][NextDue]_vars

\* What the claims call the rules' matches, stated on the item.
MilestoneDates ==
  {i \in 1..Len(item.evidence) :
     /\ item.evidence[i].milestoneDueOn \notin {Null, ""}
     /\ \E at \in 1..Len(item.evidence[i].milestoneDueOn) : IsDateAt(item.evidence[i].milestoneDueOn, at)}
IsDueLabel(label) ==
  LET n == ToLowerCase(Trim(label)) IN n = "due/today" \/ matchDueLabel(n) # Null
DueLabelsOfItem == {i \in 1..Len(item.labels) : IsDueLabel(item.labels[i])}
FrontmatterDues == {i \in 1..Len(item.evidence) : frontmatterDue(item.evidence[i]) # Null}
MinOf(S) == CHOOSE x \in S : \A y \in S : x <= y

\* The reference instant and zone in force, and the calendar date there, written out.
ReferenceInstant == IF "referenceDate" \in DOMAIN options THEN options.referenceDate ELSE clock
ReferenceZone == IF "timezone" \in DOMAIN options THEN options.timezone ELSE "UTC"
LocalDateTable ==
  [UTC |-> (Instant(2, 14, 3) :> "2026-02-14" @@ Instant(2, 14, 9) :> "2026-02-14"
            @@ Instant(2, 14, 20) :> "2026-02-14" @@ Instant(2, 28, 20) :> "2026-02-28"),
   Asia_Taipei |-> (Instant(2, 14, 3) :> "2026-02-14" @@ Instant(2, 14, 9) :> "2026-02-14"
            @@ Instant(2, 14, 20) :> "2026-02-15" @@ Instant(2, 28, 20) :> "2026-03-01"),
   America_New_York |-> (Instant(2, 14, 3) :> "2026-02-13" @@ Instant(2, 14, 9) :> "2026-02-14"
            @@ Instant(2, 14, 20) :> "2026-02-14" @@ Instant(2, 28, 20) :> "2026-02-28")]
LocalDate(instant, zone) == LocalDateTable[ZoneKey(zone)][instant]

\* C5: resolveDue returns the first matching rule in the order milestone > label >
\* frontmatter > none, source names the rule that produced the date, and due is
\* null exactly when source is "none".
C5_DuePriority ==
  pc = "done" =>
    /\ MilestoneDates # {} =>
         /\ resolution.source = "milestone"
         /\ resolution.due = matchDatePattern(item.evidence[MinOf(MilestoneDates)].milestoneDueOn)
    /\ MilestoneDates = {} /\ DueLabelsOfItem # {} =>
         /\ resolution.source = "label"
         /\ resolution.due = resolveByLabel(item, LocalDate(ReferenceInstant, ReferenceZone))
    /\ MilestoneDates = {} /\ DueLabelsOfItem = {} /\ FrontmatterDues # {} =>
         /\ resolution.source = "frontmatter"
         /\ resolution.due = frontmatterDue(item.evidence[MinOf(FrontmatterDues)])
    /\ MilestoneDates = {} /\ DueLabelsOfItem = {} /\ FrontmatterDues = {} =>
         resolution.source = "none"
    /\ resolution.due = Null <=> resolution.source = "none"

\* C5 witness: a milestone date wins over a due label and a frontmatter due key.
C5_Witness ==
  /\ pc = "done"
  /\ MilestoneDates # {} /\ DueLabelsOfItem # {} /\ FrontmatterDues # {}
  /\ resolution = [due |-> "2026-02-20", source |-> "milestone"]

\* The first due label of the item is due/today (any letter case).
FirstDueLabelIsToday ==
  /\ DueLabelsOfItem # {}
  /\ ToLowerCase(Trim(item.labels[MinOf(DueLabelsOfItem)])) = "due/today"
CarriesDueToday ==
  \E i \in 1..Len(item.labels) : ToLowerCase(Trim(item.labels[i])) = "due/today"

-----------------------------------------------------------------------------
(* Digest assembler (pipeline). *)

\* The primary order of the default collation on the characters used: spaces,
\* then punctuation, then digits, then letters; a letter's case does not count.
CollationOrder == " _-,;:!?.()@*/&#+0123456789abcdefghijklmnopqrstuvwxyz"
CollationWeight ==
  [c \in {CharAt(CollationOrder, i) : i \in 1..Len(CollationOrder)} |->
     CHOOSE i \in 1..Len(CollationOrder) : CharAt(CollationOrder, i) = c]
PrimaryWeight(c) == CollationWeight[LowerChar(c)]

RECURSIVE ComparePrimary(_, _)
ComparePrimary(a, b) ==
  IF Len(a) = 0 /\ Len(b) = 0 THEN 0
  ELSE IF Len(a) = 0 THEN -1
  ELSE IF Len(b) = 0 THEN 1
  ELSE IF PrimaryWeight(CharAt(a, 1)) < PrimaryWeight(CharAt(b, 1)) THEN -1
  ELSE IF PrimaryWeight(CharAt(a, 1)) > PrimaryWeight(CharAt(b, 1)) THEN 1
  ELSE ComparePrimary(Tail(a), Tail(b))

\* The case level, for strings equal at the primary level: lower case first.
RECURSIVE CompareCase(_, _)
CompareCase(a, b) ==
  IF Len(a) = 0 THEN 0
  ELSE IF CharAt(a, 1) = CharAt(b, 1) THEN CompareCase(Tail(a), Tail(b))
  ELSE IF CharAt(b, 1) \in UpperSet THEN -1
  ELSE 1

\* a.localeCompare(b): negative, zero or positive.
localeCompare(a, b) ==
  LET primary == ComparePrimary(a, b)
  IN IF primary # 0 THEN primary ELSE CompareCase(a, b)

\* Mutant of compareWorkItems: the comparison stops at the title (no key tie-break).
compareWorkItemsNoKey(a, b) ==
  LET repoA == OrElse(a.repo, "")
      repoB == OrElse(b.repo, "")
  IN IF repoA # repoB THEN localeCompare(repoA, repoB)
     ELSE localeCompare(a.title, b.title)

\* The comparator sortWorkItems hands to sort.
compareWorkItems(a, b) ==
  LET repoA == OrElse(a.repo, "")
      repoB == OrElse(b.repo, "")
  IN IF repoA # repoB THEN localeCompare(repoA, repoB)
     ELSE IF a.title # b.title THEN localeCompare(a.title, b.title)
     ELSE localeCompare(a.key, b.key)

\* Array.prototype.sort is stable: x goes after the elements that do not follow it.
RECURSIVE InsertSorted(_, _)
InsertSorted(sorted, x) ==
  IF Len(sorted) = 0 THEN <<x>>
  ELSE IF compareWorkItems(x, Head(sorted)) < 0 THEN <<x>> \o sorted
  ELSE <<Head(sorted)>> \o InsertSorted(Tail(sorted), x)

RECURSIVE StableSort(_, _)
StableSort(seq, acc) ==
  IF Len(seq) = 0 THEN acc ELSE StableSort(Tail(seq), InsertSorted(acc, Head(seq)))

\* [...items].sort(compare)
sortWorkItems(its) == StableSort(its, <<>>)

\* The pipeline module's own copy of formatDateInTimeZone.
pipelineFormatDateInTimeZone(date, timezone) ==
  LET localHours == date + TimeZoneOffset[ZoneKey(timezone)]
      dayOfYear == localHours \div 24
      month == MonthOfDay(dayOfYear, 1)
      day == dayOfYear - DaysBeforeMonth(month) + 1
  IN "2026" \o "-" \o Pad2(month) \o "-" \o Pad2(day)

\* Mutant of withStatus: a unit of unknown status is kept with the in-progress ones.
withStatusOrUnknown(its, st) ==
  LET keep(it) == it.status = st \/ (st = "in_progress" /\ it.status = "unknown")
  IN SelectSeq(its, keep)

\* items.filter((item) => item.status === st)
withStatus(its, st) == LET keep(it) == it.status = st IN SelectSeq(its, keep)

\* Mutant of createDigest: stats.dueToday counts the units that have a due date.
createDigestStatsFromDue(its, c, now) ==
  LET timezone == Option(c, "timezone", "UTC")
      currentDate == pipelineFormatDateInTimeZone(Option(c, "date", now), timezone)
      dueNow(it) == it.due = currentDate
      hasDue(it) == it.due # Null
      dueToday == sortWorkItems(SelectSeq(its, dueNow))
      done == sortWorkItems(withStatus(its, "done"))
      inProgress == sortWorkItems(withStatus(its, "in_progress"))
      blocked == sortWorkItems(withStatus(its, "blocked"))
      next == sortWorkItems(withStatus(its, "planned"))
  IN [date |-> currentDate,
      timezone |-> timezone,
      scope |-> Option(c, "scope", [x \in {} |-> Null]),
      stats |-> [done |-> Len(done), inProgress |-> Len(inProgress),
                 blocked |-> Len(blocked), dueToday |-> Len(SelectSeq(its, hasDue))],
      sections |-> [dueToday |-> dueToday, done |-> done, inProgress |-> inProgress,
                    blocked |-> blocked, next |-> next, notes |-> <<>>]]

\* createDigest(items, ctx), with now the reading of the wall clock.
createDigest(its, c, now) ==
  LET timezone == Option(c, "timezone", "UTC")
      currentDate == pipelineFormatDateInTimeZone(Option(c, "date", now), timezone)
      dueNow(it) == it.due = currentDate
      dueToday == sortWorkItems(SelectSeq(its, dueNow))
      done == sortWorkItems(withStatus(its, "done"))
      inProgress == sortWorkItems(withStatus(its, "in_progress"))
      blocked == sortWorkItems(withStatus(its, "blocked"))
      next == sortWorkItems(withStatus(its, "planned"))
  IN [date |-> currentDate,
      timezone |-> timezone,
      scope |-> Option(c, "scope", [x \in {} |-> Null]),
      stats |-> [done |-> Len(done), inProgress |-> Len(inProgress),
                 blocked |-> Len(blocked), dueToday |-> Len(dueToday)],
      sections |-> [dueToday |-> dueToday, done |-> done, inProgress |-> inProgress,
                    blocked |-> blocked, next |-> next, notes |-> <<>>]]

-----------------------------------------------------------------------------
(* The assembler's inputs. *)

MaxItems == 3

DigestItems ==
  { WorkItem("github:z/repo#2", "z/repo", "Z issue", <<>>, Null, "done", <<>>),
    WorkItem("github:a/repo#1", "a/repo", "A issue", <<>>, "2026-02-15", "done", <<>>),
    WorkItem("github:a/repo#10", "a/repo", "A issue", <<>>, "2026-02-14", "done", <<>>),
    WorkItem("github:a/repo#3", "a/repo", "A issue", <<>>, "2026-02-15", "blocked", <<>>),
    WorkItem("github:a/repo#1", "a/repo", "A issue", <<>>, Null, "done", <<>>),
    WorkItem("git:abc", Null, "a issue", <<>>, "2026-02-14", "in_progress", <<>>),
    WorkItem("github:B/repo#7", "B/repo", "b issue", <<>>, "2026-02-28", "planned", <<>>),
    WorkItem("github:a/repo#4", "a/repo", "B issue", <<>>, "2026-02-15", "unknown", <<>>) }

DigestContexts ==
  { [x \in {} |-> Null],
    [timezone |-> "Asia/Taipei"],
    [date |-> Instant(2, 14, 20)],
    [date |-> Instant(2, 14, 20), timezone |-> "UTC"],
    [date |-> Instant(2, 14, 20), timezone |-> "Asia/Taipei"],
    [date |-> Instant(2, 14, 3), timezone |-> "America/New_York"],
    [date |-> Instant(2, 28, 20), timezone |-> "America/New_York", scope |-> [repos |-> <<"a/repo">>]] }

InitDigest ==
  /\ pc = "createDigest"
  /\ PipeUnused
  /\ items \in SeqsUpTo(DigestItems, MaxItems)
  /\ ctx \in DigestContexts
  /\ clock \in ClockReadings
  /\ digest = Unused
  /\ SplitUnused
  /\ RenderUnused
  /\ RuleUnused

CreateDigest ==
  /\ pc = "createDigest"
  /\ digest' = createDigest(items, ctx, clock)
  /\ pc' = "done"
  /\ UNCHANGED <<items, ctx, clock, splitVars, renderVars, ruleVars, pipeVars>>

NextDigest == CreateDigest

SpecDigest == InitDigest /\ [][NextDigest]_vars

\* The number of occurrences of u in seq.
Count(u, seq) == Cardinality({i \in 1..Len(seq) : seq[i] = u})

\* The reference instant and zone of the digest, and the sections by status.
DigestInstant == IF "date" \in DOMAIN ctx THEN ctx.date ELSE clock
DigestZone == IF "timezone" \in DOMAIN ctx THEN ctx.timezone ELSE "UTC"
StatusSections ==
  { <<"done", digest.sections.done>>, <<"in_progress", digest.sections.inProgress>>,
    <<"blocked", digest.sections.blocked>>, <<"planned", digest.sections.next>> }

\* C7: a unit is in sections.dueToday iff its due equals digest.date, the calendar
\* date of the reference instant in the digest's zone, whatever its status.
C7_DueTodayIffDueIsDate ==
  pc = "done" =>
    /\ digest.date = LocalDate(DigestInstant, DigestZone)
    /\ \A i \in 1..Len(items) :
         Count(items[i], digest.sections.dueToday) =
           IF items[i].due = LocalDate(DigestInstant, DigestZone) THEN Count(items[i], items) ELSE 0
    /\ \A j \in 1..Len(digest.sections.dueToday) : Count(digest.sections.dueToday[j], items) > 0

\* C7 witness: at 2026-02-14T20:00Z under Asia/Taipei a done unit due 2026-02-15 is
\* in dueToday and in done, while a unit due 2026-02-14 (the UTC date) is not due today.
C7_Witness ==
  /\ pc = "done"
  /\ ctx = [date |-> Instant(2, 14, 20), timezone |-> "Asia/Taipei"]
  /\ digest.date = "2026-02-15"
  /\ \E i \in 1..Len(items) :
       /\ items[i].due = "2026-02-15" /\ items[i].status = "done"
       /\ Count(items[i], digest.sections.dueToday) = 1
       /\ Count(items[i], digest.sections.done) = 1
  /\ \E i \in 1..Len(items) :
       items[i].due = "2026-02-14" /\ Count(items[i], digest.sections.dueToday) = 0

\* C8: each input unit of status done, in_progress, blocked or planned is in the
\* section of its status, once per occurrence in the input, and in no other of
\* the four; a unit of status unknown is in none of them.
C8_OneStatusSection ==
  pc = "done" =>
    \A i \in 1..Len(items) : \A sec \in StatusSections :
      Count(items[i], sec[2]) = IF items[i].status = sec[1] THEN Count(items[i], items) ELSE 0

\* C8 witness: three distinct units, one done, one blocked, one unknown.
C8_Witness ==
  /\ pc = "done" /\ Len(items) = 3
  /\ {items[i].status : i \in 1..3} = {"done", "blocked", "unknown"}
  /\ Len(digest.sections.done) = 1 /\ Len(digest.sections.blocked) = 1
  /\ Len(digest.sections.inProgress) = 0 /\ Len(digest.sections.next) = 0

\* C9: stats.done, stats.inProgress, stats.blocked and stats.dueToday are the
\* lengths of the sections of the same names.
C9_StatsAreSectionLengths ==
  pc = "done" =>
    /\ digest.stats.done = Len(digest.sections.done)
    /\ digest.stats.inProgress = Len(digest.sections.inProgress)
    /\ digest.stats.blocked = Len(digest.sections.blocked)
    /\ digest.stats.dueToday = Len(digest.sections.dueToday)

\* C9 witness: two done units of which one is due today, beside a unit due another day.
C9_Witness ==
  /\ pc = "done"
  /\ digest.stats.done = 2 /\ digest.stats.dueToday = 1
  /\ \E i \in 1..Len(items) : items[i].due \notin {Null, digest.date}

\* (a.repo, a.title, a.key) <= (b.repo, b.title, b.key) in the collation's order,
\* a missing repo counting as the empty string.
SortKeyLeq(a, b) ==
  LET r == localeCompare(IF a.repo = Null THEN "" ELSE a.repo, IF b.repo = Null THEN "" ELSE b.repo)
      t == localeCompare(a.title, b.title)
      k == localeCompare(a.key, b.key)
  IN r < 0 \/ (r = 0 /\ (t < 0 \/ (t = 0 /\ k <= 0)))
SortedSection(sec) == \A i \in 1..(Len(sec) - 1) : SortKeyLeq(sec[i], sec[i + 1])
DistinctKeys == \A i, j \in 1..Len(items) : items[i].key = items[j].key => i = j
Reordered(p) == [i \in 1..Len(items) |-> items[p[i]]]

-----------------------------------------------------------------------------
(* X renderer (renderer-x): the chunks of a digest, numbering, renderXDigest. *)

DEFAULT_MAX_LENGTH == 280

normalizeLang(lang) == IF lang = "zh-TW" THEN "zh-TW" ELSE "en"

headerText(date, tone, lang) ==
  IF lang = "zh-TW"
  THEN CASE tone = "playful" -> "TW playful update " \o date
         [] tone = "hacker" -> "TW build log " \o date
         [] tone = "formal" -> "TW status report " \o date
         [] OTHER -> "TW daily update " \o date
  ELSE CASE tone = "playful" -> "Ship log for " \o date
         [] tone = "hacker" -> "Build log " \o date
         [] tone = "formal" -> "Status report " \o date
         [] OTHER -> "Daily update " \o date

\* items.slice(0, maxItems).map((item) => item.title.trim()).filter(Boolean).join("; ")
compactItems(its, maxItems) ==
  IF Len(its) = 0 THEN "-"
  ELSE LET first == SubSeq(its, 1, Min(maxItems, Len(its)))
           titles == [i \in 1..Len(first) |-> Trim(first[i].title)]
           nonEmpty(t) == t # ""
       IN Join(SelectSeq(titles, nonEmpty), "; ")

createChunks(d, tone, lang, includeMetrics) ==
  LET header == <<headerText(d.date, tone, lang)>>
      n(x) == NumberToString(x)
      metrics ==
        IF ~includeMetrics THEN <<>>
        ELSE IF lang = "zh-TW"
        THEN << "TW stats: done " \o n(d.stats.done) \o ", in-progress " \o n(d.stats.inProgress)
                  \o ", blocked " \o n(d.stats.blocked) \o ", due " \o n(d.stats.dueToday) >>
        ELSE << "Stats: done " \o n(d.stats.done) \o ", in-progress " \o n(d.stats.inProgress)
                  \o ", blocked " \o n(d.stats.blocked) \o ", due today " \o n(d.stats.dueToday) >>
      sections ==
        IF lang = "zh-TW"
        THEN << "TW due today: " \o compactItems(d.sections.dueToday, 4),
                "TW done: " \o compactItems(d.sections.done, 4),
                "TW in progress: " \o compactItems(d.sections.inProgress, 4),
                "TW blocked: " \o compactItems(d.sections.blocked, 4),
                "TW next: " \o compactItems(d.sections.next, 4) >>
        ELSE << "Due today: " \o compactItems(d.sections.dueToday, 4),
                "Done: " \o compactItems(d.sections.done, 4),
                "In progress: " \o compactItems(d.sections.inProgress, 4),
                "Blocked: " \o compactItems(d.sections.blocked, 4),
                "Next: " \o compactItems(d.sections.next, 4) >>
  IN header \o metrics \o sections

\* ` (${index + 1}/${total})` for the 1-based position i.
numberingSuffix(i, total) == " (" \o NumberToString(i) \o "/" \o NumberToString(total) \o ")"

\* Mutant of applyNumbering: the suffix carries the 0-based index.
applyNumberingZeroBased(bs, maxLen) ==
  LET total == Len(bs)
  IN IF total <= 1 THEN bs
     ELSE [i \in 1..total |->
             LET suffix == numberingSuffix(i - 1, total)
                 limit == maxLen - Len(suffix)
                 trimmed == IF Len(bs[i]) > limit
                            THEN TrimEnd(Slice(bs[i], 0, Max(0, limit - 1)))
                            ELSE bs[i]
             IN trimmed \o suffix]

applyNumbering(bs, maxLen) ==
  LET total == Len(bs)
  IN IF total <= 1 THEN bs
     ELSE [i \in 1..total |->
             LET suffix == numberingSuffix(i, total)
                 limit == maxLen - Len(suffix)
                 trimmed == IF Len(bs[i]) > limit
                            THEN TrimEnd(Slice(bs[i], 0, Max(0, limit - 1)))
                            ELSE bs[i]
             IN trimmed \o suffix]

\* The blocks renderXDigest packs before numbering (its local rawBlocks).
rawBlocksOf(d, opts) ==
  LET tone == Option(opts, "tone", "calm")
      lang == normalizeLang(Option(opts, "lang", Null))
      maxLen == Option(opts, "maxLength", DEFAULT_MAX_LENGTH)
      numbering == Option(opts, "numbering", TRUE)
      includeMetrics == Option(opts, "includeMetrics", TRUE)
      reservedMax == IF numbering THEN Max(20, maxLen - 10) ELSE maxLen
  IN splitThread(createChunks(d, tone, lang, includeMetrics), reservedMax)

renderXDigest(d, opts) ==
  LET maxLen == Option(opts, "maxLength", DEFAULT_MAX_LENGTH)
      numbering == Option(opts, "numbering", TRUE)
      rawBlocks == rawBlocksOf(d, opts)
      bs == IF numbering THEN applyNumbering(rawBlocks, maxLen) ELSE rawBlocks
  IN [blocks |-> bs, meta |-> [maxLength |-> maxLen, totalBlocks |-> Len(bs)]]

-----------------------------------------------------------------------------
(* The renderer's inputs: digests createDigest returns, and render options. *)

MaxRenderLength == 8

RenderItem(key, title, due, st) == WorkItem(key, "acme/repo", title, <<>>, due, st, <<>>)

RenderItemLists ==
  { <<>>,
    << RenderItem("github:acme/repo#1", "Fix login timeout", "2026-02-14", "in_progress"),
       RenderItem("github:acme/repo#2", "Add digest writer abstraction", Null, "done"),
       RenderItem("github:acme/repo#3", "Stabilize CI workflow", Null, "done"),
       RenderItem("github:acme/repo#4", "Refactor status classifier", Null, "in_progress"),
       RenderItem("github:acme/repo#5", "Waiting on external API", Null, "blocked"),
       RenderItem("github:acme/repo#6", "Draft release notes", Null, "planned") >>,
    << RenderItem("github:acme/repo#1", "  Ship setup wizard  ", "2026-02-14", "done"),
       RenderItem("github:acme/repo#2", "   ", Null, "done"),
       RenderItem("github:acme/repo#3", "Bump internationalization-formatting-library to v2", Null, "done"),
       RenderItem("github:acme/repo#4", "Do it", Null, "done"),
       RenderItem("github:acme/repo#5", "Fifth done item is cut", Null, "done") >> }

RenderDigests ==
  { createDigest(its, [date |-> Instant(2, 14, 9), timezone |-> "UTC"], Instant(2, 14, 9)) :
      its \in RenderItemLists }

\* The objects that hold the optional field name, with a value of values, or not.
OptionalField(name, values) == {[x \in {} |-> Null]} \cup {name :> v : v \in values}

RenderOptions ==
  { tone @@ lang @@ len @@ numbering @@ metrics :
      tone \in OptionalField("tone", {"playful", "hacker", "formal"}),
      lang \in OptionalField("lang", {"zh-TW", "both"}),
      len \in OptionalField("maxLength", (1..MaxRenderLength) \cup {17, 30, 60}),
      numbering \in OptionalField("numbering", {FALSE}),
      metrics \in OptionalField("includeMetrics", {FALSE}) }

InitRender ==
  /\ pc = "renderXDigest"
  /\ PipeUnused
  /\ xdigest \in RenderDigests
  /\ xoptions \in RenderOptions
  /\ xresult = Unused
  /\ SplitUnused
  /\ RuleUnused
  /\ DigestUnused
  /\ clock = Unused

\* renderXDigest returns; rawBlocks records what it packed before numbering.
RenderXDigest ==
  /\ pc = "renderXDigest"
  /\ xresult' = [rawBlocks |-> rawBlocksOf(xdigest, xoptions), result |-> renderXDigest(xdigest, xoptions)]
  /\ pc' = "done"
  /\ UNCHANGED <<xdigest, xoptions, splitVars, ruleVars, digestVars, clock, pipeVars>>

NextRender == RenderXDigest

SpecRender == InitRender /\ [][NextRender]_vars

NumberingOn == IF "numbering" \in DOMAIN xoptions THEN xoptions.numbering ELSE TRUE
RenderLimit == IF "maxLength" \in DOMAIN xoptions THEN xoptions.maxLength ELSE 280
EndsWith(s, suffix) == Len(suffix) <= Len(s) /\ SubSeq(s, Len(s) - Len(suffix) + 1, Len(s)) = suffix

\* C2: with numbering enabled, every block renderXDigest returns, suffix included,
\* has length <= maxLength, for every maxLength >= 1.
C2_NumberedBlocksWithinLimit ==
  pc = "done" /\ NumberingOn =>
    \A i \in 1..Len(xresult.result.blocks) : Len(xresult.result.blocks[i]) <= RenderLimit

\* C3: with numbering enabled, N > 1 packed blocks give exactly N blocks, block i
\* being a prefix of packed block i followed by exactly " (i/N)"; one packed block
\* is returned unchanged.
C3_NumberingSuffixes ==
  pc = "done" /\ NumberingOn =>
    LET raw == xresult.rawBlocks
        out == xresult.result.blocks
        N == Len(raw)
    IN /\ Len(out) = N
       /\ N > 1 =>
            \A i \in 1..N :
              LET suffix == " (" \o NumberToString(i) \o "/" \o NumberToString(N) \o ")"
              IN /\ EndsWith(out[i], suffix)
                 /\ StartsWith(raw[i], SubSeq(out[i], 1, Len(out[i]) - Len(suffix)))
       /\ N <= 1 => out = raw

\* C3 witness: at maxLength 30 fourteen blocks are packed; the first gets " (1/14)",
\* the eleventh, too long, loses the end of its own text and gets " (11/14)".
C3_Witness ==
  /\ pc = "done" /\ NumberingOn /\ RenderLimit = 30
  /\ Len(xresult.rawBlocks) = 14
  /\ xresult.rawBlocks[11] = "internationalization-formatting-library"
  /\ xresult.result.blocks[1] = "Daily update (1/14)"
  /\ xresult.result.blocks[11] = "internationalization- (11/14)"

-----------------------------------------------------------------------------
(* Aggregator: the CLI's normalize step, which merges events into work     *)
(* items by identity key.                                                  *)

\* An Event as a provider emits it; an absent optional field is Null, absent labels <<>>.
ActivityEvent(id, provider, repo, url, type, title, body, labels, timestamp) ==
  [id |-> id, provider |-> provider, repo |-> repo, url |-> url, type |-> type,
   title |-> title, body |-> body, labels |-> labels, timestamp |-> timestamp,
   milestoneDueOn |-> Null]

\* The last position of the run of digits of s that starts at position at (at - 1: no digit).
RECURSIVE DigitRunEnd(_, _)
DigitRunEnd(s, at) ==
  IF at <= Len(s) /\ IsDigit(CharAt(s, at)) THEN DigitRunEnd(s, at + 1) ELSE at - 1

\* url.match(/\/issues\/(\d+)(?:$|[?#/])/)?.[1], with marker "/issues/" or "/pull/":
\* the digits after the leftmost marker that is followed by a run of digits which
\* ends the url or is followed by ?, # or /.  Null when there is none.
matchNumberedPath(url, marker) ==
  LET digitsEnd(p) == DigitRunEnd(url, p + Len(marker))
      hits == {p \in 1..Len(url) :
                 /\ MatchesAt(url, marker, p)
                 /\ digitsEnd(p) >= p + Len(marker)
                 /\ (digitsEnd(p) = Len(url) \/ CharAt(url, digitsEnd(p) + 1) \in {"?", "#", "/"})}
  IN IF hits = {} THEN Null
     ELSE SubSeq(url, FirstIndex(hits) + Len(marker), digitsEnd(FirstIndex(hits)))

deriveItemKey(event) ==
  LET url == OrElse(event.url, "")
      issueMatch == matchNumberedPath(url, "/issues/")
      prMatch == matchNumberedPath(url, "/pull/")
  IN IF Truthy(event.repo) /\ Truthy(issueMatch) THEN "github:" \o event.repo \o "#" \o issueMatch
     ELSE IF Truthy(event.repo) /\ Truthy(prMatch) THEN "github:" \o event.repo \o "#" \o prMatch
     ELSE event.provider \o ":" \o event.id

normalizeWorkKind(event) ==
  IF StartsWith(event.type, "issue_") THEN "issue"
  ELSE IF StartsWith(event.type, "pr_") THEN "pr"
  ELSE IF event.type = "commit" THEN "commit"
  ELSE IF event.type = "release" THEN "release"
  ELSE "note"

\* set.add(label) for each label in turn: a Set keeps the order of first insertion.
RECURSIVE addLabels(_, _)
addLabels(set, labels) ==
  IF Len(labels) = 0 THEN set
  ELSE addLabels(IF \E i \in 1..Len(set) : set[i] = Head(labels) THEN set
                 ELSE Append(set, Head(labels)),
                 Tail(labels))

\* grouped.get(key): the position of the key's entry in the Map, 0 when it has none.
groupIndex(grouped, key) == FirstIndex({i \in 1..Len(grouped) : grouped[i].key = key})

\* Mutant of mergeEvent: every titled record overwrites the title.
mergeEventLatestTitle(existing, event) ==
  [existing EXCEPT
     !.title = IF Truthy(event.title) THEN event.title ELSE @,
     !.url = IF Truthy(event.url) /\ ~Truthy(@) THEN event.url ELSE @,
     !.repo = IF ~Truthy(@) /\ Truthy(event.repo) THEN event.repo ELSE @,
     !.labels = addLabels(@, event.labels),
     !.evidence = Append(@, event)]

\* The branch for a key already in the Map.
mergeEvent(existing, event) ==
  [existing EXCEPT
     !.title = IF Truthy(event.title) /\ (~Truthy(@) \/ @ = "(untitled)") THEN event.title ELSE @,
     !.url = IF Truthy(event.url) /\ ~Truthy(@) THEN event.url ELSE @,
     !.repo = IF ~Truthy(@) /\ Truthy(event.repo) THEN event.repo ELSE @,
     !.labels = addLabels(@, event.labels),
     !.evidence = Append(@, event)]

\* grouped.set(key, {...}) for a new key.
newGroup(key, event) ==
  [key |-> key,
   kind |-> normalizeWorkKind(event),
   repo |-> IF Truthy(event.repo) THEN event.repo ELSE Null,
   title |-> OrElse(event.title, "(untitled)"),
   url |-> IF Truthy(event.url) THEN event.url ELSE Null,
   labels |-> addLabels(<<>>, event.labels),
   evidence |-> <<event>>]

\* for (const event of events) { ... }: the Map as the list of its entries in insertion order.
RECURSIVE groupEvents(_, _)
groupEvents(evs, grouped) ==
  IF Len(evs) = 0 THEN grouped
  ELSE LET event == Head(evs)
           key == deriveItemKey(event)
           at == groupIndex(grouped, key)
       IN groupEvents(Tail(evs),
                      IF at > 0 THEN [grouped EXCEPT ![at] = mergeEvent(@, event)]
                      ELSE Append(grouped, newGroup(key, event)))

\* evidence.sort((a, b) => a.timestamp.localeCompare(b.timestamp)), a stable sort.
RECURSIVE insertByTimestamp(_, _)
insertByTimestamp(sorted, x) ==
  IF Len(sorted) = 0 THEN <<x>>
  ELSE IF localeCompare(x.timestamp, Head(sorted).timestamp) < 0 THEN <<x>> \o sorted
  ELSE <<Head(sorted)>> \o insertByTimestamp(Tail(sorted), x)

RECURSIVE sortByTimestamp(_, _)
sortByTimestamp(seq, acc) ==
  IF Len(seq) = 0 THEN acc ELSE sortByTimestamp(Tail(seq), insertByTimestamp(acc, Head(seq)))

\* Mutant of groupToWorkItem: the evidence keeps only the group's first event.
groupToWorkItemFirstEvidence(g) ==
  [key |-> g.key, kind |-> g.kind, repo |-> IF Truthy(g.repo) THEN g.repo ELSE Null,
   title |-> g.title, url |-> IF Truthy(g.url) THEN g.url ELSE Null, labels |-> g.labels,
   due |-> Null, status |-> "unknown", highlights |-> <<>>,
   evidence |-> <<Head(g.evidence)>>]

\* The work item built from a Map entry.
groupToWorkItem(g) ==
  [key |-> g.key, kind |-> g.kind, repo |-> IF Truthy(g.repo) THEN g.repo ELSE Null,
   title |-> g.title, url |-> IF Truthy(g.url) THEN g.url ELSE Null, labels |-> g.labels,
   due |-> Null, status |-> "unknown", highlights |-> <<>>,
   evidence |-> sortByTimestamp(g.evidence, <<>>)]

normalizeEventsToWorkItems(evs) ==
  LET grouped == groupEvents(evs, <<>>)
  IN [i \in 1..Len(grouped) |-> groupToWorkItem(grouped[i])]

-----------------------------------------------------------------------------
(* Rule-based summarizer. *)

DigitValue(c) == CHOOSE n \in 0..9 : CharAt(DigitChars, n + 1) = c
TwoDigits(s, at) == DigitValue(CharAt(s, at)) * 10 + DigitValue(CharAt(s, at + 1))

\* The time zone designator of an ISO timestamp, from its 20th character on: Z or
\* a signed offset +HH:MM / -HH:MM.
IsZoneDesignator(z) ==
  \/ z = "Z"
  \/ /\ Len(z) = 6
     /\ CharAt(z, 1) \in {"+", "-"} /\ CharAt(z, 4) = ":"
     /\ \A i \in {2, 3, 5, 6} : IsDigit(CharAt(z, i))
     /\ TwoDigits(z, 2) <= 23 /\ TwoDigits(z, 5) <= 59

\* The seconds the designated zone is ahead of UTC.
ZoneDesignatorSeconds(z) ==
  IF z = "Z" THEN 0
  ELSE (IF CharAt(z, 1) = "-" THEN -1 ELSE 1) * (TwoDigits(z, 2) * 3600 + TwoDigits(z, 5) * 60)

\* new Date(ts).getTime() is a number, not NaN, for ISO timestamps:
\* the form YYYY-MM-DDTHH:mm:ss followed by Z or an offset, naming a real day and time.
IsValidTimestamp(ts) ==
  /\ Len(ts) >= 20
  /\ \A i \in {1, 2, 3, 4, 6, 7, 9, 10, 12, 13, 15, 16, 18, 19} : IsDigit(CharAt(ts, i))
  /\ CharAt(ts, 5) = "-" /\ CharAt(ts, 8) = "-" /\ CharAt(ts, 11) = "T"
  /\ CharAt(ts, 14) = ":" /\ CharAt(ts, 17) = ":" /\ IsZoneDesignator(SliceFrom(ts, 19))
  /\ TwoDigits(ts, 6) \in 1..12
  /\ TwoDigits(ts, 9) \in 1..DaysInMonth[TwoDigits(ts, 6)]
  /\ TwoDigits(ts, 12) <= 23 /\ TwoDigits(ts, 15) <= 59 /\ TwoDigits(ts, 18) <= 59

\* new Date(ts).getTime() of a valid timestamp of 2026, in seconds since 2026-01-01T00:00:00Z.
getTime(ts) ==
  Instant(TwoDigits(ts, 6), TwoDigits(ts, 9), TwoDigits(ts, 12)) * 3600
    + TwoDigits(ts, 15) * 60 + TwoDigits(ts, 18) - ZoneDesignatorSeconds(SliceFrom(ts, 19))

\* input.match(/^(.+?[.!?])(?:\s|$)/)?.[1] ?? input, trimmed: the shortest prefix of
\* two or more characters, none of them a line break, that ends in . ! or ? and is
\* followed by white space or the end.
firstSentence(input) ==
  LET trimmed == Trim(input)
      ends == {i \in 2..Len(trimmed) :
                 /\ CharAt(trimmed, i) \in {".", "!", "?"}
                 /\ (i = Len(trimmed) \/ IsSpace(CharAt(trimmed, i + 1)))
                 /\ \A j \in 1..(i - 1) : CharAt(trimmed, j) \notin {"\n", "\r"}}
  IN IF trimmed = "" THEN ""
     ELSE IF ends = {} THEN trimmed
     ELSE Trim(SubSeq(trimmed, 1, FirstIndex(ends)))

\* [...events].sort((a, b) => getTime(b) - getTime(a)): newest first, stable.
RECURSIVE insertNewestFirst(_, _)
insertNewestFirst(sorted, x) ==
  IF Len(sorted) = 0 THEN <<x>>
  ELSE IF /\ IsValidTimestamp(Head(sorted).timestamp) /\ IsValidTimestamp(x.timestamp)
             /\ getTime(Head(sorted).timestamp) - getTime(x.timestamp) < 0 THEN <<x>> \o sorted
  ELSE <<Head(sorted)>> \o insertNewestFirst(Tail(sorted), x)

RECURSIVE sortNewestFirst(_, _)
sortNewestFirst(seq, acc) ==
  IF Len(seq) = 0 THEN acc ELSE sortNewestFirst(Tail(seq), insertNewestFirst(acc, Head(seq)))

\* The highlight taken from latestSignalEvent(item.evidence): <<>> when no event
\* has a body or a title.
latestSignalHighlight(evidence) ==
  LET sorted == sortNewestFirst(evidence, <<>>)
      at == FirstIndex({i \in 1..Len(sorted) : Truthy(sorted[i].body) \/ Truthy(sorted[i].title)})
  IN IF at = 0 THEN <<>>
     ELSE IF Truthy(sorted[at].body) THEN <<firstSentence(sorted[at].body)>>
     ELSE <<firstSentence(sorted[at].title)>>

\* Mutant of summarizeWorkItemMax: the highlights are not deduplicated.
summarizeWorkItemNoDedupe(it, maxHighlights) ==
  LET fromTitle == IF Len(Trim(it.title)) > 0 THEN <<firstSentence(it.title)>> ELSE <<>>
      highlights == fromTitle \o latestSignalHighlight(it.evidence)
      nonEmpty(h) == Len(h) > 0
  IN Slice(SelectSeq(highlights, nonEmpty), 0, maxHighlights)

\* summarizeWorkItem(item, maxHighlights), 0 <= maxHighlights.
summarizeWorkItemMax(it, maxHighlights) ==
  LET fromTitle == IF Len(Trim(it.title)) > 0 THEN <<firstSentence(it.title)>> ELSE <<>>
      highlights == fromTitle \o latestSignalHighlight(it.evidence)
      nonEmpty(h) == Len(h) > 0
      unique == addLabels(<<>>, SelectSeq(highlights, nonEmpty))
  IN Slice(unique, 0, maxHighlights)

\* summarizeWorkItem(item): maxHighlights = 3.
summarizeWorkItem(it) == summarizeWorkItemMax(it, 3)

-----------------------------------------------------------------------------
(* summarizeWorkItem on its own: the item and the maxHighlights argument are *)
(* drawn, the argument being omitted in some calls.                          *)

SummaryEvent(id, title, body, timestamp) ==
  ActivityEvent(id, "github", "a/repo", "/a/repo/issues/1", "issue_commented", title, body,
                <<>>, timestamp)

SummaryEvents ==
  { SummaryEvent("s1", "Fix login bug", Null, "2026-02-14T01:00:00Z"),
    SummaryEvent("s2", "Fix login.", "Fix login. Details follow", "2026-02-14T02:00:00Z"),
    SummaryEvent("s3", Null, Null, "2026-02-14T03:00:00Z"),
    SummaryEvent("s4", "Later note", "", "2026-02-14T02:00:00Z"),
    SummaryEvent("s5", "  ", Null, "2026-02-14T04:00:00Z") }

SummaryTitles == {"Fix login bug", "Fix login. Then logout", "", "  "}

\* The call without the maxHighlights argument.
NoSummaryOptions == [x \in {} |-> Null]

SummaryOptions == {NoSummaryOptions} \cup {[maxHighlights |-> n] : n \in 0..2}

InitSummarize ==
  /\ pc = "summarizeWorkItem"
  /\ item \in {WorkItem("github:a/repo#1", "a/repo", t, <<>>, Null, "unknown", ev) :
                 t \in SummaryTitles, ev \in SeqsUpTo(SummaryEvents, MaxEvidence)}
  /\ options \in SummaryOptions
  /\ status = Unused /\ resolution = Unused /\ summary = Unused
  /\ clock = Unused
  /\ PipeUnused
  /\ SplitUnused
  /\ RenderUnused
  /\ DigestUnused

\* summarizeWorkItem(item) or summarizeWorkItem(item, maxHighlights)
Summarize ==
  /\ pc = "summarizeWorkItem"
  /\ summary' = IF "maxHighlights" \in DOMAIN options
                 THEN summarizeWorkItemMax(item, options.maxHighlights)
                 ELSE summarizeWorkItem(item)
  /\ pc' = "done"
  /\ UNCHANGED <<item, options, status, resolution, clock, splitVars, renderVars, digestVars,
                 pipeVars>>

NextSummarize == Summarize

SpecSummarize == InitSummarize /\ [][NextSummarize]_vars

\* The first sentence of each text of the pool, written out.
SentenceOf(text) ==
  CASE text \in {"Fix login. Then logout", "Fix login. Details follow"} -> "Fix login."
    [] text = "  " -> ""
    [] OTHER -> text

\* The maximum in force, and the evidence records that carry a body or a title.
MaxInForce == IF "maxHighlights" \in DOMAIN options THEN options.maxHighlights ELSE 3
SignalRecords ==
  {i \in 1..Len(item.evidence) :
     item.evidence[i].body \notin {Null, ""} \/ item.evidence[i].title \notin {Null, ""}}
\* The most recent of them: the first in evidence order among the latest.
MostRecentSignal ==
  CHOOSE i \in SignalRecords :
    \A j \in SignalRecords :
      \/ getTime(item.evidence[j].timestamp) < getTime(item.evidence[i].timestamp)
      \/ getTime(item.evidence[j].timestamp) = getTime(item.evidence[i].timestamp) /\ i <= j
SignalText(i) ==
  IF item.evidence[i].body \notin {Null, ""} THEN item.evidence[i].body ELSE item.evidence[i].title
TitleSentence == IF item.title \in {"", "  "} THEN <<>> ELSE <<SentenceOf(item.title)>>
SignalSentence ==
  IF SignalRecords = {} \/ SentenceOf(SignalText(MostRecentSignal)) = "" THEN <<>>
  ELSE <<SentenceOf(SignalText(MostRecentSignal))>>
Discovered == IF TitleSentence = SignalSentence THEN TitleSentence ELSE TitleSentence \o SignalSentence

\* C24: the highlights are distinct, non-empty, at most max, in discovery order:
\* the title's first sentence if the title is not blank, then the first
\* sentence of the most recent record with a body or title if it differs; one
\* record titled "Fix login bug" without a body gives that title alone.
C24_SummaryHighlights ==
  pc = "done" =>
    /\ \A i, j \in 1..Len(summary) : summary[i] = summary[j] => i = j
    /\ \A i \in 1..Len(summary) : summary[i] # ""
    /\ Len(summary) <= MaxInForce
    /\ summary = SubSeq(Discovered, 1, Min(MaxInForce, Len(Discovered)))
    /\ (/\ item.title = "Fix login bug" /\ Len(item.evidence) = 1
        /\ item.evidence[1].title = "Fix login bug" /\ item.evidence[1].body = Null
        /\ "maxHighlights" \notin DOMAIN options) => summary = <<"Fix login bug">>

\* C24 witness: the title's first sentence equals that of the most recent
\* record's body, which is not repeated.
C24_Witness ==
  /\ pc = "done" /\ "maxHighlights" \notin DOMAIN options
  /\ item.title = "Fix login. Then logout"
  /\ Len(item.evidence) = 2 /\ item.evidence[1].id = "s2" /\ item.evidence[2].id = "s1"
  /\ summary = <<"Fix login.">>

-----------------------------------------------------------------------------
(* runPipeline: collect, normalize, enrich each item, createDigest, render. *)

NoOptions == [x \in {} |-> Null]

\* Mutant of dueOptionsOf: the reference date of the context is not handed on.
dueOptionsWithoutDate(c) ==
  IF "timezone" \in DOMAIN c /\ Truthy(c.timezone) THEN [timezone |-> c.timezone] ELSE NoOptions

\* The dueOptions built from ctx: a field is set when ctx has it and it is truthy.
dueOptionsOf(c) ==
  LET hasDate == "date" \in DOMAIN c
      hasZone == "timezone" \in DOMAIN c /\ Truthy(c.timezone)
  IN IF hasDate /\ hasZone THEN [referenceDate |-> c.date, timezone |-> c.timezone]
     ELSE IF hasDate THEN [referenceDate |-> c.date]
     ELSE IF hasZone THEN [timezone |-> c.timezone]
     ELSE NoOptions

\* new Intl.DateTimeFormat("en-CA", {timeZone}) accepts the zone; for any other
\* name it throws a RangeError.
IsValidTimeZone(timezone) == timezone \in {"UTC", "Asia/Taipei", "America/New_York"}

\* An exception leaving a call.
Thrown == [threw |-> "RangeError: Invalid time zone specified"]
IsThrown(x) == "threw" \in DOMAIN x

\* resolveDue(item, options), or the RangeError its formatter throws.
resolveDueOrThrow(it, opts, now) ==
  IF IsValidTimeZone(Option(opts, "timezone", "UTC")) THEN resolveDue(it, opts, now) ELSE Thrown

\* Mutant of createDigestOrThrow: UTC stands in for a zone the formatter rejects.
createDigestOrUtc(its, c, now) ==
  IF IsValidTimeZone(Option(c, "timezone", "UTC")) THEN createDigest(its, c, now)
  ELSE createDigest(its, [c EXCEPT !.timezone = "UTC"], now)

\* createDigest(items, ctx), or the RangeError its formatter throws.
createDigestOrThrow(its, c, now) ==
  IF IsValidTimeZone(Option(c, "timezone", "UTC")) THEN createDigest(its, c, now) ELSE Thrown

\* pluginHighlights.map((entry) => entry.trim()).filter(Boolean).slice(0, 5)
cleanHighlights(entries) ==
  LET trimmed == [i \in 1..Len(entries) |-> Trim(entries[i])]
      nonEmpty(h) == h # ""
      kept == SelectSeq(trimmed, nonEmpty)
  IN SubSeq(kept, 1, Min(5, Len(kept)))

\* Mutant of hookHighlights: any array the hook returns is used, an empty one too.
hookHighlightsAnyArray(result, fallback) ==
  IF result.kind = "array" THEN cleanHighlights(result.value) ELSE fallback

\* The highlights after the hook's call settled with result: the try block's
\* assignment for a non-empty array, the rule-based ones (kept, or set again by
\* the catch block) otherwise.
hookHighlights(result, fallback) ==
  IF result.kind = "array" /\ Len(result.value) > 0 THEN cleanHighlights(result.value)
  ELSE fallback

\* Mutant of enrichItem: a due date or status normalize supplied is kept.
enrichItemKeepSupplied(it, due, st, highlights) ==
  [it EXCEPT !.due = IF Truthy(@) THEN @ ELSE due,
             !.status = IF @ # "unknown" THEN @ ELSE st,
             !.highlights = highlights]

\* { ...item, due, status, highlights }
enrichItem(it, due, st, highlights) ==
  [it EXCEPT !.due = due, !.status = st, !.highlights = highlights]

\* One pass of the loop body when no hook is set.
enrichWithoutHook(it, c, now) ==
  enrichItem(it, resolveDue(it, dueOptionsOf(c), now).due, classifyStatus(it, NoOptions),
             summarizeWorkItem(it))

\* runPipeline(steps, ctx).digest for steps.collect = () => events, steps.normalize =
\* normalizeEventsToWorkItems, no hook and a time zone the formatter accepts.
runPipelineDigest(evs, c, now) ==
  LET its == normalizeEventsToWorkItems(evs)
  IN createDigest([i \in 1..Len(its) |-> enrichWithoutHook(its[i], c, now)], c, now)

-----------------------------------------------------------------------------
(* The aggregator's inputs. *)

MaxBatch == 3

AggregateEvents ==
  { ActivityEvent("1", "github", "a/repo", "/a/repo/issues/12", "issue_created",
                  "Old title", Null, <<"due/today">>, "2026-02-14T01:00:00Z"),
    ActivityEvent("2", "github", "a/repo", "/a/repo/issues/12#c1", "issue_commented",
                  "New title", "Looks good. Ship it", <<"due:2026-03-01", "bug">>,
                  "2026-02-14T02:00:00Z"),
    ActivityEvent("3", "github", "a/repo", "/a/repo/pull/7/files", "pr_opened",
                  "Azure login", Null, <<>>, "2026-02-14T03:00:00Z"),
    ActivityEvent("4", "git", Null, "/a/repo/issues/12", "commit",
                  Null, Null, <<>>, "2026-02-14T01:00:00Z"),
    ActivityEvent("5", "github", "a/repo", "/a/repo/issues/12x", "issue_closed",
                  "Closed", Null, <<"bug">>, "not-a-date"),
    ActivityEvent("6", "github", "a/repo", "/a/repo/issues/12", "issue_commented",
                  "", Null, <<"bug">>, "2026-02-13T23:00:00Z"),
    ActivityEvent("7", "github", "a/repo", "/a/repo/issues/12#c2", "issue_commented",
                  Null, Null, <<>>, "2026-02-14T09:30:00+08:00") }

AggregateContexts ==
  { [date |-> Instant(2, 14, 9), timezone |-> "UTC"],
    [date |-> Instant(2, 14, 20), timezone |-> "Asia/Taipei"] }

InitAggregate ==
  /\ pc = "normalize"
  /\ events \in SeqsUpTo(AggregateEvents, MaxBatch)
  /\ pctx \in AggregateContexts
  /\ clock \in {Instant(2, 14, 9)}
  /\ workItems = Unused
  /\ steps = Unused /\ hooks = Unused /\ enriched = Unused /\ pending = Unused
  /\ hookLog = Unused /\ pdigest = Unused /\ rendered = Unused /\ outcome = Unused
  /\ previous = Unused
  /\ SplitUnused
  /\ RenderUnused
  /\ RuleUnused
  /\ DigestUnused

\* normalize: (events) => normalizeEventsToWorkItems(events)
NormalizeEvents ==
  /\ pc = "normalize"
  /\ workItems' = normalizeEventsToWorkItems(events)
  /\ pc' = "done"
  /\ UNCHANGED <<steps, events, pctx, hooks, enriched, pending, hookLog, pdigest, rendered,
                 outcome, previous, clock, splitVars, renderVars, ruleVars, digestVars>>

NextAggregate == NormalizeEvents

SpecAggregate == InitAggregate /\ [][NextAggregate]_vars

\* The records of the batch whose timestamp parses.
ValidRecord(i) == IsValidTimestamp(events[i].timestamp)
AllRecordsValid == \A i \in 1..Len(events) : ValidRecord(i)

\* What a digest shows of its units: the keys of every section, in order, and the stats.
SectionKeys(sec) == [i \in 1..Len(sec) |-> sec[i].key]
DigestShape(d) ==
  [dueToday |-> SectionKeys(d.sections.dueToday), done |-> SectionKeys(d.sections.done),
   inProgress |-> SectionKeys(d.sections.inProgress), blocked |-> SectionKeys(d.sections.blocked),
   next |-> SectionKeys(d.sections.next), stats |-> d.stats]
Shuffled(p) == [i \in 1..Len(events) |-> events[p[i]]]

\* C11: aggregating any permutation of a batch and running the pipeline with the same
\* reference instant and zone gives the same units, in the same order, in every
\* section, and the same stats.
C11_ShuffleInvariant ==
  (pc = "done" /\ AllRecordsValid) =>
    \A p \in Permutations(1..Len(events)) :
      DigestShape(runPipelineDigest(Shuffled(p), pctx, clock))
        = DigestShape(runPipelineDigest(events, pctx, clock))

\* The number of occurrences of e in seq.
Occurrences(e, seq) == Cardinality({i \in 1..Len(seq) : seq[i] = e})
InEvidence(e) == \E u \in 1..Len(workItems) : Occurrences(e, workItems[u].evidence) > 0

\* C13: a record whose timestamp does not parse is dropped, alone: it is in no
\* unit's evidence, and every other record of the batch is in some unit's evidence.
C13_InvalidRecordDropped ==
  pc = "done" =>
    \A i \in 1..Len(events) : InEvidence(events[i]) <=> ValidRecord(i)

\* The identity key of each record of AggregateEvents, by record id: the issue or
\* pull number of the url when the record has a repo, else provider:id.
IdentityKey ==
  [id \in {"1", "2", "3", "4", "5", "6", "7"} |->
     CASE id \in {"1", "2", "6", "7"} -> "github:a/repo#12"
       [] id = "3" -> "github:a/repo#7"
       [] id = "4" -> "git:4"
       [] id = "5" -> "github:5"]
UnitsWithKey(k) == {u \in 1..Len(workItems) : workItems[u].key = k}

\* C14: the units partition the batch by identity key: one unit per key that
\* occurs, each record exactly as often as in the batch in the evidence of its
\* key's unit and in no other, and no unit without evidence.
C14_PartitionByKey ==
  pc = "done" =>
    /\ \A u, v \in 1..Len(workItems) : workItems[u].key = workItems[v].key => u = v
    /\ \A i \in 1..Len(events) :
         /\ Cardinality(UnitsWithKey(IdentityKey[events[i].id])) = 1
         /\ \A u \in 1..Len(workItems) :
              Occurrences(events[i], workItems[u].evidence)
                = IF workItems[u].key = IdentityKey[events[i].id]
                  THEN Occurrences(events[i], events) ELSE 0
    /\ \A u \in 1..Len(workItems) :
         /\ Len(workItems[u].evidence) > 0
         /\ \E i \in 1..Len(events) : IdentityKey[events[i].id] = workItems[u].key

\* C14 witness: three records of two keys, one of them without a repo, give two
\* units; the issue's unit holds its two records.
C14_Witness ==
  /\ pc = "done" /\ Len(events) = 3 /\ Len(workItems) = 2
  /\ events[1].id = "2" /\ events[2].id = "4" /\ events[3].id = "1"
  /\ workItems[1].key = "github:a/repo#12" /\ workItems[1].evidence = <<events[3], events[1]>>
  /\ workItems[2].key = "git:4" /\ workItems[2].evidence = <<events[2]>>

\* The positions in a unit's evidence, or in the batch, of the records that carry a title.
TitledEvidence(u) == {i \in 1..Len(workItems[u].evidence) : Truthy(workItems[u].evidence[i].title)}
TitledRecords(u) ==
  {i \in 1..Len(events) : IdentityKey[events[i].id] = workItems[u].key /\ Truthy(events[i].title)}
SeveralTitles(u) ==
  \E i, j \in TitledEvidence(u) : workItems[u].evidence[i].title # workItems[u].evidence[j].title
MaxOf(S) == CHOOSE x \in S : \A y \in S : y <= x

\* C20: a unit merged from records with different non-empty titles has the latest
\* of them: that of the titled record observed last, by timestamp or in the batch.
C20_LatestTitle ==
  pc = "done" =>
    \A u \in 1..Len(workItems) :
      ((\A i \in 1..Len(workItems[u].evidence) :
          IsValidTimestamp(workItems[u].evidence[i].timestamp)) /\ SeveralTitles(u)) =>
        \/ workItems[u].title = workItems[u].evidence[MaxOf(TitledEvidence(u))].title
        \/ workItems[u].title = events[MaxOf(TitledRecords(u))].title

\* C22: in every work unit produced by the aggregator, adjacent evidence records
\* are in ascending order of their timestamp instants (records whose timestamp is
\* not an instant aside), whatever the arrival order.
C22_EvidenceChronological ==
  pc = "done" =>
    \A u \in 1..Len(workItems) :
      \A i \in 1..(Len(workItems[u].evidence) - 1) :
        LET earlier == workItems[u].evidence[i].timestamp
            next == workItems[u].evidence[i + 1].timestamp
        IN (IsValidTimestamp(earlier) /\ IsValidTimestamp(next)) =>
             getTime(earlier) <= getTime(next)

\* The positions in the batch of the records of a unit's key, and of those with a url.
RecordsOf(u) == {i \in 1..Len(events) : IdentityKey[events[i].id] = workItems[u].key}
UrlRecords(u) == {i \in RecordsOf(u) : Truthy(events[i].url)}

\* C23: a unit's title is the first non-empty title of its records in arrival
\* order and its url their first non-empty url; a unit none of whose records
\* carries a title has the placeholder.
C23_FirstTitleAndUrl ==
  pc = "done" =>
    \A u \in 1..Len(workItems) :
      /\ TitledRecords(u) # {} => workItems[u].title = events[MinOf(TitledRecords(u))].title
      /\ UrlRecords(u) # {} => workItems[u].url = events[MinOf(UrlRecords(u))].url
      /\ (\A i \in RecordsOf(u) : events[i].title = Null) => workItems[u].title = "(untitled)"

\* C23 witness: the first record has no title, so the unit starts with the
\* placeholder, takes the second record's title and keeps it at the third.
C23_Witness ==
  /\ pc = "done" /\ Len(events) = 3 /\ Len(workItems) = 1
  /\ events[1].id = "7" /\ events[2].id = "2" /\ events[3].id = "1"
  /\ workItems[1].title = "New title"
  /\ workItems[1].url = "/a/repo/issues/12#c2"

\* C25: for every unit the aggregator produces, the built-in summarizer with the
\* default maximum returns between one and three highlights.
C25_AtLeastOneHighlight ==
  pc = "done" =>
    \A u \in 1..Len(workItems) : Len(summarizeWorkItem(workItems[u])) \in 1..3

-----------------------------------------------------------------------------
(* runPipeline step by step: its awaits are the points where other code,   *)
(* the summarizer hook among it, runs.                                     *)

PipelineEvents ==
  [p1 |-> ActivityEvent("1", "github", "a/repo", "/a/repo/issues/12", "issue_created",
                        "Fix login. Then logout", Null, <<"due/today">>, "2026-02-14T01:00:00Z"),
   p2 |-> ActivityEvent("2", "github", "a/repo", "/a/repo/issues/12#c1", "issue_commented",
                        "New title", "Looks good. Ship it", <<"blocked">>, "2026-02-14T02:00:00Z"),
   p3 |-> ActivityEvent("3", "github", "a/repo", "/a/repo/pull/7", "pr_merged",
                        "Azure login", Null, <<>>, "2026-02-14T03:00:00Z"),
   p4 |-> ActivityEvent("4", "git", Null, Null, "commit",
                        Null, Null, <<>>, "2026-02-14T01:00:00Z")]

PipelineBatches ==
  { <<>>,
    <<PipelineEvents.p1>>,
    <<PipelineEvents.p1, PipelineEvents.p2>>,
    <<PipelineEvents.p3, PipelineEvents.p1>>,
    <<PipelineEvents.p4, PipelineEvents.p3, PipelineEvents.p4>> }

PipelineContexts ==
  { [date |-> Instant(2, 14, 20), timezone |-> "Asia/Taipei"],
    [date |-> Instant(2, 14, 9), timezone |-> "UTC"],
    [timezone |-> "Asia/Taipei"],
    [date |-> Instant(2, 14, 9), timezone |-> "Mars/Base"],
    [date |-> Instant(2, 14, 9), timezone |-> ""] }

\* What a call of the hook can come to: a returned (or resolved) value, an
\* exception, a rejected promise, or a promise that never settles.
HookReturnValues ==
  { [kind |-> "null", value |-> <<>>],
    [kind |-> "undefined", value |-> <<>>],
    [kind |-> "nonArray", value |-> <<>>],
    [kind |-> "array", value |-> <<>>],
    [kind |-> "array", value |-> <<" Plugin summary ", "", "b", "c", "d", "e", "f">>],
    [kind |-> "array", value |-> <<"", "  ">>] }
HookFailures == { [kind |-> "throws", value |-> <<>>], [kind |-> "rejects", value |-> <<>>] }
HookHang == [kind |-> "hangs", value |-> <<>>]

\* A normalize step that returns units already carrying due, status and highlights.
prefilled(its) ==
  [i \in 1..Len(its) |->
     [its[i] EXCEPT !.due = "2026-01-01", !.status = "planned", !.highlights = <<"supplied">>]]

\* The render step of the pipeline's test: the keys of the done section.
renderOutput(d) == [i \in 1..Len(d.sections.done) |-> d.sections.done[i].key]

InitPipeline ==
  /\ pc = "collect"
  /\ steps \in [collect : PipelineBatches, normalize : {"aggregate", "prefilled"}]
  /\ pctx \in PipelineContexts
  /\ hooks \in {"none", "summarizeWorkItem"}
  /\ clock \in ClockReadings
  /\ events = <<>> /\ workItems = <<>> /\ enriched = <<>> /\ hookLog = <<>>
  /\ rendered = <<>> /\ previous = <<>>
  /\ pending = Unused /\ pdigest = Unused /\ outcome = Unused
  /\ SplitUnused
  /\ RenderUnused
  /\ RuleUnused
  /\ DigestUnused

nonPipeVars == <<splitVars, renderVars, ruleVars, digestVars>>

\* const events = await steps.collect(ctx)
Collect ==
  /\ pc = "collect"
  /\ events' = steps.collect
  /\ pc' = "normalize"
  /\ UNCHANGED <<steps, pctx, hooks, workItems, enriched, pending, hookLog, pdigest, rendered,
                 outcome, previous, clock, nonPipeVars>>

\* const normalized = await steps.normalize(events, ctx); const enriched = []
Normalize ==
  /\ pc = "normalize"
  /\ workItems' = IF steps.normalize = "aggregate" THEN normalizeEventsToWorkItems(events)
                  ELSE prefilled(normalizeEventsToWorkItems(events))
  /\ enriched' = <<>>
  /\ pc' = "item"
  /\ UNCHANGED <<steps, events, pctx, hooks, pending, hookLog, pdigest, rendered,
                 outcome, previous, clock, nonPipeVars>>

\* The item the loop is at.
currentItem == workItems[Len(enriched) + 1]
currentDue == resolveDueOrThrow(currentItem, dueOptionsOf(pctx), clock)

\* resolveDue throws: the exception leaves runPipeline, whose promise rejects.
ResolveDueThrows ==
  /\ pc = "item" /\ Len(enriched) < Len(workItems)
  /\ IsThrown(currentDue)
  /\ outcome' = currentDue
  /\ pc' = "rejected"
  /\ UNCHANGED <<steps, events, pctx, hooks, workItems, enriched, pending, hookLog, pdigest,
                 rendered, previous, clock, nonPipeVars>>

\* The loop body when no hook is set.
EnrichItem ==
  /\ pc = "item" /\ Len(enriched) < Len(workItems)
  /\ ~IsThrown(currentDue)
  /\ hooks = "none"
  /\ enriched' = Append(enriched, enrichItem(currentItem, currentDue.due,
                                             classifyStatus(currentItem, NoOptions),
                                             summarizeWorkItem(currentItem)))
  /\ UNCHANGED <<pc, steps, events, pctx, hooks, workItems, pending, hookLog, pdigest,
                 rendered, outcome, previous, clock, nonPipeVars>>

\* The loop body up to await hooks.summarizeWorkItem(item).
CallHook ==
  /\ pc = "item" /\ Len(enriched) < Len(workItems)
  /\ ~IsThrown(currentDue)
  /\ hooks = "summarizeWorkItem"
  /\ pending' = [due |-> currentDue.due, status |-> classifyStatus(currentItem, NoOptions),
                 highlights |-> summarizeWorkItem(currentItem)]
  /\ pc' = "hook"
  /\ UNCHANGED <<steps, events, pctx, hooks, workItems, enriched, hookLog, pdigest,
                 rendered, outcome, previous, clock, nonPipeVars>>

\* The rest of the loop body once the hook's call settled with result.
settle(result, fallback) ==
  /\ enriched' = Append(enriched, enrichItem(currentItem, pending.due, pending.status,
                                             hookHighlights(result, fallback)))
  /\ hookLog' = Append(hookLog, result)
  /\ pc' = "item"
  /\ UNCHANGED <<steps, events, pctx, hooks, workItems, pending, pdigest, rendered,
                 outcome, previous, clock, nonPipeVars>>

\* The hook returned a value, or a promise that resolved to it.
HookReturns == pc = "hook" /\ \E result \in HookReturnValues : settle(result, pending.highlights)

\* The hook threw, or its promise rejected: the catch block.
HookFails ==
  pc = "hook" /\ \E result \in HookFailures : settle(result, summarizeWorkItem(currentItem))

\* The hook returned a promise that never settles: the await never resumes.
HookHangs ==
  /\ pc = "hook"
  /\ hookLog' = Append(hookLog, HookHang)
  /\ pc' = "hung"
  /\ UNCHANGED <<steps, events, pctx, hooks, workItems, enriched, pending, pdigest, rendered,
                 outcome, previous, clock, nonPipeVars>>

currentDigest == createDigestOrThrow(enriched, pctx, clock)

\* createDigest throws: the exception leaves runPipeline.
CreateDigestThrows ==
  /\ pc = "item" /\ Len(enriched) = Len(workItems)
  /\ IsThrown(currentDigest)
  /\ outcome' = currentDigest
  /\ pc' = "rejected"
  /\ UNCHANGED <<steps, events, pctx, hooks, workItems, enriched, pending, hookLog, pdigest,
                 rendered, previous, clock, nonPipeVars>>

\* const digest = createDigest(enriched, ctx)
CreateDigestStep ==
  /\ pc = "item" /\ Len(enriched) = Len(workItems)
  /\ ~IsThrown(currentDigest)
  /\ pdigest' = currentDigest
  /\ pc' = "render"
  /\ UNCHANGED <<steps, events, pctx, hooks, workItems, enriched, pending, hookLog,
                 rendered, outcome, previous, clock, nonPipeVars>>

\* const output = await steps.render(digest, ctx); return { digest, output }
Render ==
  /\ pc = "render"
  /\ rendered' = Append(rendered, pdigest)
  /\ outcome' = [digest |-> pdigest, output |-> renderOutput(pdigest)]
  /\ pc' = "returned"
  /\ UNCHANGED <<steps, events, pctx, hooks, workItems, enriched, pending, hookLog, pdigest,
                 previous, clock, nonPipeVars>>

\* The caller runs the pipeline once more, hook-less, on the same steps and
\* context; the wall clock has moved on.
Rerun ==
  /\ pc = "returned" /\ hooks = "none" /\ Len(previous) = 0
  /\ previous' = <<outcome>>
  /\ clock' \in ClockReadings
  /\ events' = <<>> /\ workItems' = <<>> /\ enriched' = <<>> /\ rendered' = <<>>
  /\ pc' = "collect"
  /\ UNCHANGED <<steps, pctx, hooks, pending, hookLog, pdigest, outcome, nonPipeVars>>

\* The wall clock moves on while the loop runs or the hook's call is awaited.
ClockAdvances ==
  /\ pc \in {"item", "hook"}
  /\ \E later \in ClockReadings : later > clock /\ clock' = later
  /\ UNCHANGED <<pc, steps, events, pctx, hooks, workItems, enriched, pending, hookLog, pdigest,
                 rendered, outcome, previous, nonPipeVars>>

NextPipeline ==
  \/ Collect \/ Normalize \/ ResolveDueThrows \/ EnrichItem \/ CallHook
  \/ HookReturns \/ HookFails \/ HookHangs \/ ClockAdvances
  \/ CreateDigestThrows \/ CreateDigestStep \/ Render \/ Rerun

SpecPipeline == InitPipeline /\ [][NextPipeline]_vars

\* C12: with ctx.date supplied and no hook, a second run on the same records,
\* context and steps returns the same digest and output as the first, whatever
\* the wall clock reads.
C12_RunsAgree ==
  (pc = "returned" /\ Len(previous) = 1 /\ hooks = "none" /\ "date" \in DOMAIN pctx) =>
    outcome = previous[1]

\* C12 witness: a second run has returned while the wall clock reads a local day
\* (02-14 in Taipei) other than the reference instant's (02-15), and the unit
\* labelled due/today is due on the reference instant's day.
C12_Witness ==
  /\ pc = "returned" /\ Len(previous) = 1 /\ hooks = "none"
  /\ pctx = [date |-> Instant(2, 14, 20), timezone |-> "Asia/Taipei"]
  /\ clock = Instant(2, 14, 9)
  /\ outcome.digest.date = "2026-02-15"
  /\ Len(outcome.digest.sections.dueToday) = 1
  /\ outcome.digest.sections.dueToday[1].due = "2026-02-15"

\* The hook's call came to nothing usable: an exception, a rejection, null,
\* undefined, a value that is no array, or an empty array.
HookFailed(result) ==
  \/ result.kind \in {"throws", "rejects", "null", "undefined", "nonArray"}
  \/ (result.kind = "array" /\ result.value = <<>>)

\* What is used of each non-empty array the hook returns: its entries trimmed,
\* the empty ones dropped, the first five kept.
UsedHighlights(result) ==
  IF result.value = <<"", "  ">> THEN <<>> ELSE <<"Plugin summary", "b", "c", "d", "e">>

\* C15: a unit whose hook call failed has the rule-based highlights, the other
\* units have their hook's highlights, the run is rejected for no reason but the
\* time zone, and every unit is processed before the digest is built.
C15_HookFailureFallsBack ==
  /\ \A i \in 1..Len(enriched) :
       i <= Len(hookLog) =>
         enriched[i].highlights =
           IF HookFailed(hookLog[i]) THEN summarizeWorkItem(workItems[i])
           ELSE UsedHighlights(hookLog[i])
  /\ pc = "rejected" => ~IsValidTimeZone(Option(pctx, "timezone", "UTC"))
  /\ pc \in {"render", "returned"} => Len(enriched) = Len(workItems)

\* C15 witness: the hook threw for the first unit and returned highlights for the
\* second; the run returned, the first unit with the rule-based highlight.
C15_Witness ==
  /\ pc = "returned" /\ Len(hookLog) = 2
  /\ hookLog[1].kind = "throws" /\ hookLog[2].kind = "array" /\ hookLog[2].value # <<>>
  /\ Len(outcome.digest.sections.done) = 1 /\ Len(outcome.digest.sections.dueToday) = 1
  /\ outcome.digest.sections.done[1].highlights = <<"Azure login">>
  /\ outcome.digest.sections.dueToday[1].highlights = <<"Plugin summary", "b", "c", "d", "e">>

\* C16: a run whose hook call hangs is not blocked: it still has a step to take
\* (towards the render of the complete digest).
C16_HangDoesNotBlock == pc = "hung" => ENABLED NextPipeline

\* The units of the sections of a digest.
SectionUnits(d) ==
  {d.sections.dueToday[i] : i \in 1..Len(d.sections.dueToday)}
    \cup {d.sections.done[i] : i \in 1..Len(d.sections.done)}
    \cup {d.sections.inProgress[i] : i \in 1..Len(d.sections.inProgress)}
    \cup {d.sections.blocked[i] : i \in 1..Len(d.sections.blocked)}
    \cup {d.sections.next[i] : i \in 1..Len(d.sections.next)}

\* C17: render is invoked at most once in a run, after collect and normalize
\* returned and every unit normalize returned was enriched; the units of the
\* digest it gets carry the due date and status the pipeline computed, not those
\* normalize supplied.
C17_RenderAfterEnrichment ==
  /\ Len(rendered) <= 1
  /\ Len(rendered) = 1 =>
       /\ pc = "returned" /\ events = steps.collect
       /\ Len(enriched) = Len(workItems)
       /\ \A i \in 1..Len(workItems) :
            /\ enriched[i].key = workItems[i].key
            /\ \E now \in ClockReadings :
                 /\ now <= clock
                 /\ enriched[i].due = resolveDue(workItems[i], dueOptionsOf(pctx), now).due
            /\ enriched[i].status = classifyStatus(workItems[i], NoOptions)
            /\ hooks = "none" => enriched[i].highlights = summarizeWorkItem(workItems[i])
       /\ \A u \in SectionUnits(rendered[1]) : \E i \in 1..Len(enriched) : u = enriched[i]

\* C17 witness: normalize supplied due 2026-01-01 and status planned; the digest
\* rendered has the merged pull request under done, without a due date.
C17_Witness ==
  /\ pc = "returned" /\ steps.normalize = "prefilled" /\ Len(rendered) = 1
  /\ Len(workItems) = 2
  /\ workItems[1].status = "planned" /\ workItems[1].due = "2026-01-01"
  /\ Len(rendered[1].sections.done) = 1
  /\ rendered[1].sections.done[1].key = "github:a/repo#7"
  /\ rendered[1].sections.done[1].due = Null
  /\ rendered[1].sections.next = <<>>

UnknownZone == "timezone" \in DOMAIN pctx /\ ~IsValidTimeZone(pctx.timezone)

\* C18: with a time zone the platform does not know, the run never gets to
\* render or to return a digest, and when it ends it is rejected with the
\* formatter's error.
C18_UnknownZoneIsFatal ==
  UnknownZone =>
    /\ Len(rendered) = 0
    /\ pc \notin {"render", "returned"}
    /\ pc = "rejected" => IsThrown(outcome)

\* C18 witness: the zone is "", which the due options leave out: both units were
\* enriched, then createDigest threw and nothing was rendered.
C18_Witness ==
  /\ UnknownZone /\ pctx.timezone = ""
  /\ pc = "rejected" /\ IsThrown(outcome)
  /\ Len(enriched) = 2 /\ rendered = <<>>

\* The hook returned an array without a usable entry: each is empty or blank.
BlankOnly(result) ==
  /\ result.kind = "array" /\ Len(result.value) > 0
  /\ \A k \in 1..Len(result.value) : Trim(result.value[k]) = ""

\* C27: a unit whose hook returned an array of empty or blank strings only has
\* the rule-based highlights, as with an empty array.
C27_BlankArrayFallsBack ==
  \A i \in 1..Len(enriched) :
    (i <= Len(hookLog) /\ BlankOnly(hookLog[i])) =>
      enriched[i].highlights = summarizeWorkItem(workItems[i])

\* The units that carry the label due/today, and their place in the digest.
DueTodayLabelled(i) ==
  \E l \in 1..Len(workItems[i].labels) : ToLowerCase(Trim(workItems[i].labels[l])) = "due/today"
ListedDueToday(u) ==
  \E k \in 1..Len(pdigest.sections.dueToday) : pdigest.sections.dueToday[k] = u

\* C28: in every run, with ctx.date or without it and whatever the wall clock
\* does, a unit whose due date comes from a due/today label is due on the
\* digest's date and listed in sections.dueToday.
C28_DueTodayIsDigestDate ==
  pc \in {"render", "returned"} =>
    \A i \in 1..Len(workItems) :
      DueTodayLabelled(i) =>
        /\ enriched[i].due = pdigest.date
        /\ ListedDueToday(enriched[i])

-----------------------------------------------------------------------------
(* Thread splitter: packing, content and number of blocks. *)

\* The segments splitThread does not skip, trimmed, in input order.
Segments ==
  LET trimmed == [i \in 1..Len(chunks) |-> Trim(chunks[i])]
      nonBlank(t) == t # ""
  IN SelectSeq(trimmed, nonBlank)

\* The lines of the blocks, in order.
RECURSIVE LinesOf(_)
LinesOf(bs) == IF Len(bs) = 0 THEN <<>> ELSE SplitOn(Head(bs), "\n") \o LinesOf(Tail(bs))

\* The non-whitespace characters of a text, in order.
NonSpace(text) == Join(SplitWords(text), "")

\* The lines are the segments in order: a segment that fits is one line, a longer
\* one is one or more lines that carry its non-whitespace characters.
RECURSIVE LinesMatch(_, _)
LinesMatch(segs, lines) ==
  IF Len(segs) = 0 THEN Len(lines) = 0
  ELSE IF Len(Head(segs)) <= maxLength
       THEN /\ Len(lines) > 0
            /\ Head(lines) = Head(segs)
            /\ LinesMatch(Tail(segs), Tail(lines))
       ELSE \E n \in 1..Len(lines) :
              /\ NonSpace(Join(SubSeq(lines, 1, n), "")) = NonSpace(Head(segs))
              /\ LinesMatch(Tail(segs), SubSeq(lines, n + 1, Len(lines)))

AllSegmentsFit == \A i \in 1..Len(Segments) : Len(Segments[i]) <= maxLength

\* C26: the blocks hold the segments in input order, one segment that fits per
\* line, undivided; when every segment fits, a block ends exactly where the next
\* segment, joined by a newline, would pass the limit.
C26_GreedyPacking ==
  pc = "done" =>
    /\ LinesMatch(Segments, LinesOf(blocks))
    /\ AllSegmentsFit =>
         /\ \A k \in 1..Len(blocks) : Len(blocks[k]) <= maxLength
         /\ \A k \in 1..(Len(blocks) - 1) :
              Len(blocks[k]) + 1 + Len(Head(SplitOn(blocks[k + 1], "\n"))) > maxLength

\* C26 witness: two segments that fit together are one block, joined by a newline.
C26_Witness ==
  /\ pc = "done" /\ maxLength = 3
  /\ chunks = <<" a", "b ">>
  /\ blocks = <<"a\nb">>

\* C29: the non-whitespace characters of the blocks, in order, are those of the
\* segments, in order, and no block is empty.
C29_ContentPreserved ==
  pc = "done" =>
    /\ NonSpace(Join(blocks, "")) = NonSpace(Join(chunks, ""))
    /\ \A k \in 1..Len(blocks) : blocks[k] # ""

\* C29 witness: a segment longer than the limit, split at a word and inside a
\* word, after a short one.
C29_Witness ==
  /\ pc = "done" /\ maxLength = 2
  /\ chunks = <<"b", "a bb">>
  /\ NonSpace(Join(blocks, "")) = "babb"
  /\ Len(blocks) > 2

-----------------------------------------------------------------------------
(* splitThread([word], L) for one word without whitespace, with the hard     *)
(* split's while loop taken one iteration at a time.                         *)

Words == {w \in ChunkTexts : w # "" /\ NonSpace(w) = w}

\* "A".repeat(n)
RECURSIVE Repeat(_, _)
Repeat(c, n) ==
  IF n = 0 THEN ""
  ELSE IF n % 2 = 1 THEN c \o Repeat(c, n - 1)
  ELSE LET half == Repeat(c, n \div 2) IN half \o half

\* A word of DEFAULT_MAX_LENGTH + 20 = 300 characters.
LongWord == Repeat("A", DEFAULT_MAX_LENGTH + 20)

InitWord ==
  /\ pc = "splitThread"
  /\ \/ chunks \in {<<w>> : w \in Words} /\ maxLength \in 1..MaxSplitLength
     \/ chunks = <<LongWord>> /\ maxLength = DEFAULT_MAX_LENGTH
  /\ blocks = Unused
  /\ remainingText = Unused
  /\ RenderUnused
  /\ RuleUnused
  /\ DigestUnused
  /\ PipeUnused
  /\ clock = Unused

wordUnchanged == <<chunks, maxLength, renderVars, ruleVars, digestVars, clock, pipeVars>>

\* The word fits: splitThread keeps it as the current block and pushes it at the end.
WordFits ==
  /\ pc = "splitThread"
  /\ Len(Trim(chunks[1])) <= maxLength
  /\ blocks' = <<Trim(chunks[1])>>
  /\ pc' = "done"
  /\ UNCHANGED <<remainingText, wordUnchanged>>

\* The word does not fit and current is empty: let remaining = word, before the while.
EnterHardSplit ==
  /\ pc = "splitThread"
  /\ Len(Trim(chunks[1])) > maxLength
  /\ remainingText' = Trim(chunks[1])
  /\ blocks' = <<>>
  /\ pc' = "while"
  /\ UNCHANGED wordUnchanged

\* while (remaining.length > maxLength) { blocks.push(slice(0, L)); remaining = slice(L) }
HardSplitStep ==
  /\ pc = "while"
  /\ Len(remainingText) > maxLength
  /\ blocks' = Append(blocks, Slice(remainingText, 0, maxLength))
  /\ remainingText' = SliceFrom(remainingText, maxLength)
  /\ UNCHANGED <<pc, wordUnchanged>>

\* The loop ends: current = remaining, pushed when not empty; splitThread returns.
HardSplitExit ==
  /\ pc = "while"
  /\ ~(Len(remainingText) > maxLength)
  /\ blocks' = IF remainingText # "" THEN Append(blocks, remainingText) ELSE blocks
  /\ pc' = "done"
  /\ UNCHANGED <<remainingText, wordUnchanged>>

NextWord == WordFits \/ EnterHardSplit \/ HardSplitStep \/ HardSplitExit

SpecWord == InitWord /\ [][NextWord]_vars

\* ceil(n / d) for n >= 0, d >= 1.
CeilDiv(n, d) == (n + d - 1) \div d

\* The blocks of the finished call are those splitThread computes (compared for
\* the short words), ceil(n / L) of them for a word longer than L; inside the loop the pushed blocks and the
\* remaining text make up the word.
WordBlocks ==
  /\ pc = "done" =>
       /\ Len(chunks[1]) <= MaxChunkLen => blocks = splitThread(chunks, maxLength)
       /\ Len(chunks[1]) > maxLength => Len(blocks) = CeilDiv(Len(chunks[1]), maxLength)
       /\ \A k \in 1..Len(blocks) : Len(blocks[k]) \in 1..maxLength
  /\ pc = "while" =>
       /\ Join(blocks, "") \o remainingText = chunks[1]
       /\ Len(blocks) * maxLength + Len(remainingText) = Len(chunks[1])
\* Every iteration of the hard split shortens the remaining text.
RemainingShrinks ==
  (pc = "while" /\ pc' = "while") => Len(remainingText') < Len(remainingText)
\* The call is never stuck before it returns.
WordCallProceeds == pc # "done" => ENABLED NextWord

\* C30: splitThread of one word without whitespace terminates: every iteration
\* of the hard split strictly shortens the remaining text, the call is never
\* stuck, and a word of length n > L comes back as ceil(n / L) blocks.
C30_HardSplitTerminates ==
  /\ [](WordBlocks /\ WordCallProceeds)
  /\ [][RemainingShrinks]_vars

\* C30 witness: 300 characters at L = 280 came back as two blocks.
C30_Witness ==
  /\ pc = "done" /\ maxLength = DEFAULT_MAX_LENGTH
  /\ Len(chunks[1]) = DEFAULT_MAX_LENGTH + 20
  /\ Len(blocks) = 2 /\ Len(blocks[1]) = DEFAULT_MAX_LENGTH /\ Len(blocks[2]) = 20

====
